---- MODULE Spec2Model ----
(***************************************************************************)
(* A model of server/src/jsonStore.ts: the JsonStore graph database of the *)
(* LSIF extension.  The store is filled by load() from a stream of lines   *)
(* (one JSON record per line) and is then queried (hover, declarations,    *)
(* definitions, references).                                               *)
(*                                                                         *)
(* Conventions.  A Map<K, V> is a function whose DOMAIN is the key set.    *)
(* An optional value (T | undefined) is a sequence: <<>> is undefined and  *)
(* <<x>> is the value x.  An Id is a positive integer and NoId stands for  *)
(* an undefined Id.  A string whose characters matter (a version) is the   *)
(* sequence of its characters.                                             *)
(***************************************************************************)
EXTENDS Integers, Sequences, FiniteSets, TLC

VARIABLES
    db,           \* the JsonStore object: its private fields
    input,        \* the read stream: "open", "destroyed", "errored" or "closed"
    promise,      \* the promise load() builds: "pending", "resolved", "rejected"
    reason,       \* the rejection reason of the promise (<<>> while there is none)
    initialized,  \* whether the .then() callback has called initialize()
    line,         \* the line the 'line' handler is called with in this step (<<>>
                  \* when the last step of load was another handler's)
    thrown,       \* what that call of the 'line' handler caught (<<>> when nothing)
    nread,        \* the number of lines the handler has been called with
    consumed,     \* history: the set of lines the handler has been called with
    q             \* the query in progress: the locals of the running query method

vars == <<db, input, promise, reason, initialized, line, thrown, nread, consumed, q>>

loadVars == <<db, input, promise, reason, initialized, line, thrown, nread, consumed>>

(***************************************************************************)
(* Bounds of the model.                                                    *)
(***************************************************************************)
MaxLines == 4

MaxHops == 12

MaxDepth == 3

MaxEdgeLines == 2

\* The lines the stream of SpecRefs gives after its prefix.
MaxRefLines == 3

\* The document vertices the stream of SpecDocs gives.
MaxDocLines == 4

\* The entries of the top level of a document symbol result.
MaxSymbols == 2

\* The lines the stream of SpecSymbols gives after its prefix.
MaxSymbolLines == 2

\* The lines the stream of SpecQueries gives after its prefix.
MaxQueryLines == 3

\* The lines of the stream after the prefix of SpecLocal.
MaxLocalLines == 3

\* The lines of the stream after the prefix of SpecIndex.
MaxIndexLines == 3

(***************************************************************************)
(* Optional values, maps and sequences.                                    *)
(***************************************************************************)
None == <<>>

Some(x) == <<x>>

IsSome(o) == o # <<>>

NoId == 0

EmptyMap == <<>>

Has(m, k) == k \in DOMAIN m

Put(m, k, v) == [x \in (DOMAIN m) \cup {k} |-> IF x = k THEN v ELSE m[x]]

Get(m, k) == IF k \in DOMAIN m THEN Some(m[k]) ELSE None

Values(m) == {m[k] : k \in DOMAIN m}

SeqToSet(s) == {s[i] : i \in 1..Len(s)}

(***************************************************************************)
(* Semantic versions (the semver package, as load's close handler uses     *)
(* it).  A version string is the sequence of its characters.               *)
(***************************************************************************)
DigitChars == <<"0", "1", "2", "3", "4", "5", "6", "7", "8", "9">>

LetterChars == <<"a", "b", "c", "d", "e", "f", "g", "h", "i", "j", "k", "l", "m",
                 "n", "o", "p", "q", "r", "s", "t", "u", "v", "w", "x", "y", "z">>

\* The characters of an identifier in ASCII order: "-" < digits < letters.
CharOrder == <<"-">> \o DigitChars \o LetterChars

IsDigit(c) == \E i \in 1..Len(DigitChars) : DigitChars[i] = c

DigitValue(c) == (CHOOSE i \in 1..Len(DigitChars) : DigitChars[i] = c) - 1

IsIdChar(c) == \E i \in 1..Len(CharOrder) : CharOrder[i] = c

CharCode(c) == CHOOSE i \in 1..Len(CharOrder) : CharOrder[i] = c

\* The position of the first occurrence of character c in s, Len(s) + 1 if none.
IndexOf(s, c) ==
    IF \E i \in 1..Len(s) : s[i] = c
    THEN CHOOSE i \in 1..Len(s) : s[i] = c /\ \A j \in 1..(i - 1) : s[j] # c
    ELSE Len(s) + 1

\* s.split(c): the pieces of s between the occurrences of c.
RECURSIVE Split(_, _)
Split(s, c) ==
    LET i == IndexOf(s, c)
    IN  IF i > Len(s) THEN <<s>>
        ELSE <<SubSeq(s, 1, i - 1)>> \o Split(SubSeq(s, i + 1, Len(s)), c)

AllDigits(s) == s # <<>> /\ \A i \in 1..Len(s) : IsDigit(s[i])

\* NUMERICIDENTIFIER: 0|[1-9]\d*
IsNumericId(s) == AllDigits(s) /\ (Len(s) > 1 => s[1] # "0")

\* PRERELEASEIDENTIFIER: a numeric identifier, or [0-9A-Za-z-]* with a non-digit.
IsPrereleaseId(s) ==
    /\ s # <<>>
    /\ \A i \in 1..Len(s) : IsIdChar(s[i])
    /\ (AllDigits(s) => IsNumericId(s))

RECURSIVE NumericValue(_)
NumericValue(s) ==
    IF s = <<>> THEN 0
    ELSE 10 * NumericValue(SubSeq(s, 1, Len(s) - 1)) + DigitValue(s[Len(s)])

\* SemVer.parse(version): None when the string is no semantic version, else
\* Some([major, minor, patch, prerelease]); a numeric prerelease identifier
\* is kept as a number (SemVer's constructor converts it), another as its
\* characters.  Build metadata (+...) takes no part in precedence.
SemVerParse(str) ==
    LET noBuild == SubSeq(str, 1, IndexOf(str, "+") - 1)
        dash    == IndexOf(noBuild, "-")
        main    == Split(SubSeq(noBuild, 1, dash - 1), ".")
        hasPre  == dash <= Len(noBuild)
        pre     == IF hasPre THEN Split(SubSeq(noBuild, dash + 1, Len(noBuild)), ".")
                   ELSE <<>>
        build   == IF IndexOf(str, "+") <= Len(str)
                   THEN Split(SubSeq(str, IndexOf(str, "+") + 1, Len(str)), ".")
                   ELSE <<>>
    IN  IF /\ Len(main) = 3
           /\ \A i \in 1..3 : IsNumericId(main[i])
           /\ \A i \in 1..Len(pre) : IsPrereleaseId(pre[i])
           /\ \A i \in 1..Len(build) :
                  build[i] # <<>> /\ \A j \in 1..Len(build[i]) : IsIdChar(build[i][j])
        THEN Some([major |-> NumericValue(main[1]),
                   minor |-> NumericValue(main[2]),
                   patch |-> NumericValue(main[3]),
                   prerelease |->
                       [i \in 1..Len(pre) |->
                           IF AllDigits(pre[i])
                           THEN [numeric |-> TRUE, n |-> NumericValue(pre[i]), s |-> <<>>]
                           ELSE [numeric |-> FALSE, n |-> 0, s |-> pre[i]]]])
        ELSE None

Sign(a, b) == IF a < b THEN -1 ELSE IF a > b THEN 1 ELSE 0

\* The order of two strings by character codes (JavaScript's a < b).
RECURSIVE CompareStrings(_, _)
CompareStrings(a, b) ==
    IF a = <<>> /\ b = <<>> THEN 0
    ELSE IF a = <<>> THEN -1
    ELSE IF b = <<>> THEN 1
    ELSE IF a[1] # b[1] THEN Sign(CharCode(a[1]), CharCode(b[1]))
    ELSE CompareStrings(Tail(a), Tail(b))

\* compareIdentifiers: numbers numerically, a number before a string, strings
\* by character codes.
CompareIdentifiers(a, b) ==
    IF a.numeric /\ b.numeric THEN Sign(a.n, b.n)
    ELSE IF a.numeric THEN -1
    ELSE IF b.numeric THEN 1
    ELSE CompareStrings(a.s, b.s)

CompareMain(a, b) ==
    IF a.major # b.major THEN Sign(a.major, b.major)
    ELSE IF a.minor # b.minor THEN Sign(a.minor, b.minor)
    ELSE Sign(a.patch, b.patch)

RECURSIVE ComparePreFrom(_, _, _)
ComparePreFrom(a, b, i) ==
    IF i > Len(a) /\ i > Len(b) THEN 0
    ELSE IF i > Len(b) THEN 1
    ELSE IF i > Len(a) THEN -1
    ELSE IF CompareIdentifiers(a[i], b[i]) # 0 THEN CompareIdentifiers(a[i], b[i])
    ELSE ComparePreFrom(a, b, i + 1)

\* SemVer.comparePre: a version without prerelease is greater than one with.
ComparePre(a, b) ==
    IF a.prerelease # <<>> /\ b.prerelease = <<>> THEN -1
    ELSE IF a.prerelease = <<>> /\ b.prerelease # <<>> THEN 1
    ELSE IF a.prerelease = <<>> /\ b.prerelease = <<>> THEN 0
    ELSE ComparePreFrom(a.prerelease, b.prerelease, 1)

\* SemVer.compare: precedence of a against b, as -1, 0 or 1.
SemVerCompare(a, b) ==
    IF CompareMain(a, b) # 0 THEN CompareMain(a, b) ELSE ComparePre(a, b)

\* Comparator.test for the operators the range uses.
ComparatorTest(c, v) ==
    CASE c.operator = ">"  -> SemVerCompare(v, c.semver) > 0
      [] c.operator = "<=" -> SemVerCompare(v, c.semver) <= 0
      [] c.operator = ">=" -> SemVerCompare(v, c.semver) >= 0
      [] c.operator = "<"  -> SemVerCompare(v, c.semver) < 0

\* The comparators of new SemVer.Range('>0.4.99 <=0.5.0-next.2').
SupportedRange ==
    << [operator |-> ">",
        semver |-> SemVerParse(<<"0", ".", "4", ".", "9", "9">>)[1]],
       [operator |-> "<=",
        semver |-> SemVerParse(<<"0", ".", "5", ".", "0", "-", "n", "e", "x", "t", ".", "2">>)[1]] >>

\* range.includePrerelease = true
IncludePrerelease == TRUE

\* SemVer.satisfies(version, range): every comparator accepts the version and,
\* unless prereleases are included, a prerelease version needs a comparator
\* with a prerelease on the same [major, minor, patch].
SemVerSatisfies(v, range, includePrerelease) ==
    /\ \A i \in 1..Len(range) : ComparatorTest(range[i], v)
    /\ (v.prerelease # <<>> /\ ~includePrerelease) =>
           \E i \in 1..Len(range) :
               /\ range[i].semver.prerelease # <<>>
               /\ CompareMain(range[i].semver, v) = 0

(***************************************************************************)
(* Records of the stream.  A line is empty, is no JSON, or is the JSON     *)
(* text of an element; an element is an object with the fields below (a    *)
(* field the JSON text does not give is undefined).                        *)
(***************************************************************************)
Position(l, c) == [line |-> l, character |-> c]

Element(type, id, label) ==
    [type |-> type, id |-> id, label |-> label,
     version |-> None, rootUri |-> None,
     kind |-> "undefined", scope |-> "undefined", data |-> NoId,
     scheme |-> "", identifier |-> "", key |-> None,
     uri |-> "", contents |-> None,
     start |-> Position(0, 0), end |-> Position(0, 0), tag |-> None,
     result |-> None,
     outV |-> NoId, inV |-> NoId, inVs |-> None, property |-> "undefined"]

Vertex(id, label) == Element("vertex", id, label)

\* An edge with one target (inV).
Edge11(id, label, outV, inV, property) ==
    [Element("edge", id, label) EXCEPT !.outV = outV, !.inV = inV, !.property = property]

\* An edge with a list of targets (inVs).
Edge1N(id, label, outV, inVs, property) ==
    [Element("edge", id, label) EXCEPT !.outV = outV, !.inVs = Some(inVs), !.property = property]

EmptyLine == [text |-> "", json |-> FALSE, element |-> Element("undefined", NoId, "undefined")]

\* A line that is not JSON text.
GarbageLine == [text |-> "garbage", json |-> FALSE, element |-> Element("undefined", NoId, "undefined")]

JsonLine(element) == [text |-> "json", json |-> TRUE, element |-> element]

Error(message, about) == Some([message |-> message, about |-> about])

(***************************************************************************)
(* The constructor: every map empty, version and projectRoot undefined.    *)
(***************************************************************************)
constructor ==
    [version |-> None, projectRoot |-> None, activeGroup |-> NoId, activeProject |-> NoId,
     vertices |-> [all |-> EmptyMap, projects |-> EmptyMap, documents |-> EmptyMap,
                   ranges |-> EmptyMap],
     indices |-> [contents |-> EmptyMap, documents |-> EmptyMap, monikers |-> EmptyMap],
     out |-> [contains |-> EmptyMap, item |-> EmptyMap, next |-> EmptyMap,
              moniker |-> EmptyMap, documentSymbol |-> EmptyMap, foldingRange |-> EmptyMap,
              documentLink |-> EmptyMap, diagnostic |-> EmptyMap, declaration |-> EmptyMap,
              definition |-> EmptyMap, typeDefinition |-> EmptyMap, hover |-> EmptyMap,
              references |-> EmptyMap, implementation |-> EmptyMap],
     in |-> [contains |-> EmptyMap, previous |-> EmptyMap, moniker |-> EmptyMap]]

\* crypto.createHash('md5').update(text).digest('base64'): a digest, taken
\* to be free of collisions.
md5(text) == <<"md5", text>>

\* URI.parse(value)
URIparse(value) == [external |-> value]

(***************************************************************************)
(* processVertex and doProcessDocument.                                    *)
(***************************************************************************)
\* Variants of doProcessDocument: the bucket's hash follows the last
\* document; the text is registered only for the first document of a URI.
doProcessDocument_LastHash(s, document) ==
    LET contents == IF document.contents # None THEN document.contents[1]
                    ELSE "No content provided."
        hash     == md5(contents)
        old      == s.indices.documents
        value    == IF Has(old, document.uri) THEN [old[document.uri] EXCEPT !.hash = hash]
                    ELSE [hash |-> hash, documents |-> <<>>]
    IN  [s EXCEPT !.vertices.documents = Put(@, document.id, document),
                  !.indices.contents = Put(@, hash, contents),
                  !.indices.documents =
                      Put(@, document.uri,
                          [value EXCEPT !.documents = Append(@, document)])]

doProcessDocument_FirstTextOnly(s, document) ==
    LET contents == IF document.contents # None THEN document.contents[1]
                    ELSE "No content provided."
        hash     == md5(contents)
        old      == s.indices.documents
        value    == IF Has(old, document.uri) THEN old[document.uri]
                    ELSE [hash |-> hash, documents |-> <<>>]
    IN  [s EXCEPT !.vertices.documents = Put(@, document.id, document),
                  !.indices.contents = IF Has(old, document.uri) THEN @
                                       ELSE Put(@, hash, contents),
                  !.indices.documents =
                      Put(@, document.uri,
                          [value EXCEPT !.documents = Append(@, document)])]

doProcessDocument(s, document) ==
    LET contents == IF document.contents # None THEN document.contents[1]
                    ELSE "No content provided."
        hash     == md5(contents)
        old      == s.indices.documents
        value    == IF Has(old, document.uri) THEN old[document.uri]
                    ELSE [hash |-> hash, documents |-> <<>>]
    IN  [s EXCEPT !.vertices.documents = Put(@, document.id, document),
                  !.indices.contents = Put(@, hash, contents),
                  !.indices.documents =
                      Put(@, document.uri,
                          [value EXCEPT !.documents = Append(@, document)])]

\* A variant of processVertex that computes the key of a local moniker and
\* enters it in the moniker index like any other.
processVertex_IndexLocal(s, vertex) ==
    LET s1 == [s EXCEPT !.vertices.all = Put(@, vertex.id, vertex)]
    IN  CASE vertex.label = "metaData" -> [s1 EXCEPT !.version = vertex.version]
          [] vertex.label = "group" ->
                IF vertex.rootUri # None
                THEN [s1 EXCEPT !.projectRoot = Some(URIparse(vertex.rootUri[1]))]
                ELSE s1
          [] vertex.label = "project" ->
                [s1 EXCEPT !.vertices.projects = Put(@, vertex.id, vertex)]
          [] vertex.label = "$event" ->
                IF vertex.kind = "begin"
                THEN CASE vertex.scope = "group" -> [s1 EXCEPT !.activeGroup = vertex.data]
                       [] vertex.scope = "project" -> [s1 EXCEPT !.activeProject = vertex.data]
                       [] OTHER -> s1
                ELSE s1
          [] vertex.label = "document" -> doProcessDocument(s1, vertex)
          [] vertex.label = "moniker" ->
                LET key    == md5(<<"s", vertex.scheme, "i", vertex.identifier>>)
                    keyed  == [vertex EXCEPT !.key = Some(key)]
                    values == IF Has(s1.indices.monikers, key)
                              THEN s1.indices.monikers[key] ELSE <<>>
                IN  [s1 EXCEPT !.vertices.all = Put(@, vertex.id, keyed),
                               !.indices.monikers = Put(@, key, Append(values, keyed))]
          [] vertex.label = "range" ->
                [s1 EXCEPT !.vertices.ranges = Put(@, vertex.id, vertex)]
          [] OTHER -> s1

processVertex(s, vertex) ==
    LET s1 == [s EXCEPT !.vertices.all = Put(@, vertex.id, vertex)]
    IN  CASE vertex.label = "metaData" -> [s1 EXCEPT !.version = vertex.version]
          [] vertex.label = "group" ->
                IF vertex.rootUri # None
                THEN [s1 EXCEPT !.projectRoot = Some(URIparse(vertex.rootUri[1]))]
                ELSE s1
          [] vertex.label = "project" ->
                [s1 EXCEPT !.vertices.projects = Put(@, vertex.id, vertex)]
          [] vertex.label = "$event" ->
                IF vertex.kind = "begin"
                THEN CASE vertex.scope = "group" -> [s1 EXCEPT !.activeGroup = vertex.data]
                       [] vertex.scope = "project" -> [s1 EXCEPT !.activeProject = vertex.data]
                       [] OTHER -> s1
                ELSE s1
          [] vertex.label = "document" -> doProcessDocument(s1, vertex)
          [] vertex.label = "moniker" ->
                IF vertex.kind # "local"
                THEN LET key    == md5(<<"s", vertex.scheme, "i", vertex.identifier>>)
                         keyed  == [vertex EXCEPT !.key = Some(key)]
                         values == IF Has(s1.indices.monikers, key)
                                   THEN s1.indices.monikers[key] ELSE <<>>
                     IN  [s1 EXCEPT !.vertices.all = Put(@, vertex.id, keyed),
                                    !.indices.monikers = Put(@, key, Append(values, keyed))]
                ELSE s1
          [] vertex.label = "range" ->
                [s1 EXCEPT !.vertices.ranges = Put(@, vertex.id, vertex)]
          [] OTHER -> s1

(***************************************************************************)
(* processEdge and doProcessEdge.  An operation that can throw returns the *)
(* store as it has left it and what it threw (None when it returned).      *)
(***************************************************************************)
\* The wrapping of the target of an item edge by the edge's property.
ItemTarget(property, to) ==
    CASE property \in {"references", "declarations", "definitions"} ->
            Some([type |-> property, range |-> to])
      [] property \in {"referenceResults", "referenceLinks"} ->
            Some([type |-> property, result |-> to])
      [] property = "undefined" -> Some(to)
      [] OTHER -> None

\* map.get(k) pushed with v, or the new list [v] set at k.
\* A variant of PutAppend that sets a new array at every call.
PutAppend_Replace(m, k, v) == Put(m, k, <<v>>)

PutAppend(m, k, v) == Put(m, k, IF Has(m, k) THEN Append(m[k], v) ELSE <<v>>)

\* The endpoint doProcessEdge finds missing: outV if from is undefined, else
\* inV if to is undefined, else none.
missingEndpoint_InVFirst(all, outV, inV) ==
    IF ~Has(all, inV) THEN Some(inV)
    ELSE IF ~Has(all, outV) THEN Some(outV)
    ELSE None

missingEndpoint(all, outV, inV) ==
    IF ~Has(all, outV) THEN Some(outV)
    ELSE IF ~Has(all, inV) THEN Some(inV)
    ELSE None

\* case EdgeLabels.next
applyNext_FirstWins(s, from, to) ==
    IF Has(s.out.next, from.id) THEN s
    ELSE [s EXCEPT !.out.next = Put(@, from.id, to),
                   !.in.previous = Put(@, to.id, from)]

applyNext(s, from, to) ==
    [s EXCEPT !.out.next = Put(@, from.id, to),
              !.in.previous = Put(@, to.id, from)]

doProcessEdge(s, label, outV, inV, property) ==
    LET all == s.vertices.all
    IN  IF missingEndpoint(all, outV, inV) # None
        THEN [db |-> s,
              err |-> Error("No vertex found for Id", missingEndpoint(all, outV, inV))]
        ELSE
        LET from == all[outV]
            to   == all[inV]
            s1 ==
              CASE label = "contains" ->
                      [s EXCEPT !.out.contains = PutAppend(@, from.id, to),
                                !.in.contains = Put(@, to.id, from)]
                [] label = "item" ->
                      IF ItemTarget(property, to) # None
                      THEN [s EXCEPT !.out.item = PutAppend(@, from.id, ItemTarget(property, to)[1])]
                      ELSE s
                [] label = "next" -> applyNext(s, from, to)
                [] label = "moniker" ->
                      [s EXCEPT !.out.moniker = Put(@, from.id, to),
                                !.in.moniker = Put(@, to.id, from)]
                [] label = "textDocument/documentSymbol" ->
                      [s EXCEPT !.out.documentSymbol = Put(@, from.id, to)]
                [] label = "textDocument/foldingRange" ->
                      [s EXCEPT !.out.foldingRange = Put(@, from.id, to)]
                [] label = "textDocument/documentLink" ->
                      [s EXCEPT !.out.documentLink = Put(@, from.id, to)]
                [] label = "textDocument/diagnostic" ->
                      [s EXCEPT !.out.diagnostic = Put(@, from.id, to)]
                [] label = "textDocument/definition" ->
                      [s EXCEPT !.out.definition = Put(@, from.id, to)]
                [] label = "textDocument/typeDefinition" ->
                      [s EXCEPT !.out.typeDefinition = Put(@, from.id, to)]
                [] label = "textDocument/hover" ->
                      [s EXCEPT !.out.hover = Put(@, from.id, to)]
                [] label = "textDocument/references" ->
                      [s EXCEPT !.out.references = Put(@, from.id, to)]
                [] OTHER -> s
        IN  [db |-> s1, err |-> None]

\* Edge.is11 and Edge.is1N of lsif-protocol.
is11(edge) == edge.inV # NoId

is1N(edge) == edge.inVs # None

\* The for loop of processEdge over edge.inVs, from index i: it stops at the
\* first doProcessEdge that throws, with the earlier targets applied.
RECURSIVE processInVs(_, _, _, _)
processInVs(s, edge, property, i) ==
    IF i > Len(edge.inVs[1]) THEN [db |-> s, err |-> None]
    ELSE LET r == doProcessEdge(s, edge.label, edge.outV, edge.inVs[1][i], property)
         IN  IF r.err # None THEN r
             ELSE processInVs(r.db, edge, property, i + 1)

processEdge(s, edge) ==
    LET property == IF edge.label = "item" THEN edge.property ELSE "undefined"
    IN  IF is11(edge) THEN doProcessEdge(s, edge.label, edge.outV, edge.inV, property)
        ELSE IF is1N(edge) THEN processInVs(s, edge, property, 1)
        ELSE [db |-> s, err |-> None]

(***************************************************************************)
(* load: the 'line' handler, the 'close' handler, the 'error' handler of   *)
(* the stream and the then callback.                                       *)
(***************************************************************************)
\* The body of the 'line' handler up to its catch: the store it leaves and
\* what the try block threw.
lineHandler(s, l) ==
    IF l.text = "" THEN [db |-> s, err |-> None]
    ELSE IF ~l.json THEN [db |-> s, err |-> Error("SyntaxError", <<>>)]
    ELSE CASE l.element.type = "vertex" -> [db |-> processVertex(s, l.element), err |-> None]
           [] l.element.type = "edge" -> processEdge(s, l.element)
           [] OTHER -> [db |-> s, err |-> None]

closeHandler_NoRootCheck(s) ==
    IF s.version = None
    THEN [state |-> "rejected", reason |-> Error("No version found.", <<>>)]
    ELSE LET semVer == SemVerParse(s.version[1])
         IN  IF semVer = None
             THEN [state |-> "rejected",
                   reason |-> Error("No valid semantic version string. The version is:",
                                    s.version[1])]
             ELSE IF ~SemVerSatisfies(semVer[1], SupportedRange, IncludePrerelease)
             THEN [state |-> "rejected",
                   reason |-> Error("Requires version 0.5.0 or higher but received:",
                                    s.version[1])]
             ELSE [state |-> "resolved", reason |-> None]

\* The 'close' handler: the settlement it asks for.
closeHandler(s) ==
    IF s.projectRoot = None
    THEN [state |-> "rejected", reason |-> Error("No project root provided.", <<>>)]
    ELSE IF s.version = None
    THEN [state |-> "rejected", reason |-> Error("No version found.", <<>>)]
    ELSE LET semVer == SemVerParse(s.version[1])
         IN  IF semVer = None
             THEN [state |-> "rejected",
                   reason |-> Error("No valid semantic version string. The version is:",
                                    s.version[1])]
             ELSE IF ~SemVerSatisfies(semVer[1], SupportedRange, IncludePrerelease)
             THEN [state |-> "rejected",
                   reason |-> Error("Requires version 0.5.0 or higher but received:",
                                    s.version[1])]
             ELSE [state |-> "resolved", reason |-> None]

Settle_Again(state, why) == promise' = state /\ reason' = why

\* resolve() and reject(error) settle the promise once: a later call is
\* ignored.
Settle(state, why) ==
    IF promise = "pending"
    THEN promise' = state /\ reason' = why
    ELSE UNCHANGED <<promise, reason>>

\* rd.on('line', ...): the next line of the stream is l.  A line may still
\* arrive after input.destroy() (the lines of the chunk already read).
Line(l) ==
    /\ input \in {"open", "destroyed"}
    /\ LET r == lineHandler(db, l)
       IN  /\ db' = r.db
           /\ thrown' = r.err
           /\ IF r.err # None
              THEN input' = "destroyed" /\ Settle("rejected", r.err)
              ELSE UNCHANGED <<input, promise, reason>>
    /\ line' = Some(l)
    /\ nread' = nread + 1
    /\ consumed' = consumed \cup {l}
    /\ UNCHANGED <<initialized, q>>

\* rd.on('close', ...)
Close ==
    /\ input \in {"open", "destroyed", "errored"}
    /\ input' = "closed"
    /\ Settle(closeHandler(db).state, closeHandler(db).reason)
    /\ line' = None
    /\ thrown' = None
    /\ UNCHANGED <<db, initialized, nread, consumed, q>>

\* input.on('error', reject)
InputError ==
    /\ input = "open"
    /\ input' = "errored"
    /\ Settle("rejected", Error("StreamError", <<>>))
    /\ line' = None
    /\ thrown' = None
    /\ UNCHANGED <<db, initialized, nread, consumed, q>>

\* .then(() => { this.initialize(transformerFactory); })
Then ==
    /\ promise = "resolved"
    /\ ~initialized
    /\ initialized' = TRUE
    /\ UNCHANGED <<db, input, promise, reason, line, thrown, nread, consumed, q>>

(***************************************************************************)
(* Queries.  q holds the locals of the query method that is running, and   *)
(* pc the place it has reached: a loop of the code (the do-while of        *)
(* getResultForId and of findMonikers, the recursion of                    *)
(* resolveReferenceResult, the for loops of findReferences) takes one step *)
(* per iteration.                                                          *)
(***************************************************************************)
Idle ==
    [pc |-> "idle", op |-> "none", uri |-> "", position |-> Position(0, 0),
     includeDeclaration |-> FALSE,
     range |-> None,          \* the range findRangeFromPosition found
     caller |-> "none",       \* who called getResultForId or resolveReferenceResult
     id |-> NoId,             \* getResultForId / findMonikers: the parameter id
     currentId |-> NoId,      \* getResultForId / findMonikers: the local currentId
     hops |-> 0,              \* iterations of the running do-while loop so far
     anchorId |-> NoId,       \* findReferences: the anchor getResultForId returned
     result |-> <<>>,         \* references: the locations collected
     dedupRanges |-> {}, dedupMonikers |-> {},
     monikers |-> <<>>,       \* findReferences: the local monikers
     i |-> 0, j |-> 0,        \* findReferences: the for loops' positions
     stack |-> <<>>,          \* resolveReferenceResult: the frames of the recursion
     expanded |-> <<>>,       \* history: the ids resolveReferenceResult was called with
     processed |-> <<>>,      \* history: the monikers whose matching monikers were looked up
     info |-> None,           \* fileContent: the parameter info
     outcome |-> "none",      \* "undefined", "value" or "threw" once returned
     value |-> None]          \* the value returned

\* The state after new JsonStore() and the call of load().
Init ==
    /\ db = constructor
    /\ input = "open"
    /\ promise = "pending"
    /\ reason = None
    /\ initialized = FALSE
    /\ line = None
    /\ thrown = None
    /\ nread = 0
    /\ consumed = {}
    /\ q = Idle

(***************************************************************************)
(* The stream of the specification Spec: the records that decide load.     *)
(***************************************************************************)
V_0_4_5 == <<"0", ".", "4", ".", "5">>

V_0_4_99 == <<"0", ".", "4", ".", "9", "9">>

V_0_4_100 == <<"0", ".", "4", ".", "1", "0", "0">>

V_0_5_0 == <<"0", ".", "5", ".", "0">>

V_0_5_0_next_2 == <<"0", ".", "5", ".", "0", "-", "n", "e", "x", "t", ".", "2">>

V_0_5_0_next_3 == <<"0", ".", "5", ".", "0", "-", "n", "e", "x", "t", ".", "3">>

Versions ==
    { <<"0", ".", "4", ".", "5">>,
      <<"0", ".", "4", ".", "9", "9">>,
      <<"0", ".", "4", ".", "1", "0", "0">>,
      <<"0", ".", "5", ".", "0">>,
      <<"0", ".", "5", ".", "0", "-", "n", "e", "x", "t", ".", "2">>,
      <<"0", ".", "5", ".", "0", "-", "n", "e", "x", "t", ".", "3">>,
      <<"0", ".", "5">> }

MetaData(version) == [Vertex(1, "metaData") EXCEPT !.version = version]

Group(id, rootUri) == [Vertex(id, "group") EXCEPT !.rootUri = rootUri]

LoadLines ==
    {EmptyLine, GarbageLine}
    \cup {JsonLine(Element(t, 9, "metaData")) : t \in {"undefined", "other"}}
    \cup {JsonLine(MetaData(v)) : v \in {None} \cup {Some(x) : x \in Versions}}
    \cup {JsonLine(Group(2, Some("file:///root"))), JsonLine(Group(3, None))}
    \cup {JsonLine(Vertex(4, "resultSet"))}
    \cup {JsonLine(Edge11(8, "next", 4, b, "undefined")) : b \in {4, 5}}

\* The stream gives one more line, from the set lines, while fewer than
\* bound lines have been read.
ReadLine(lines, bound) == \E l \in lines : nread < bound /\ Line(l)

Next ==
    \/ ReadLine(LoadLines, MaxLines)
    \/ Close
    \/ InputError
    \/ Then

Spec == Init /\ [][Next]_vars

(***************************************************************************)
(* Position lookup.                                                        *)
(***************************************************************************)
containsPosition(range, position) ==
    IF position.line < range.start.line \/ position.line > range.end.line THEN FALSE
    ELSE IF position.line = range.start.line /\ position.character < range.start.character
    THEN FALSE
    ELSE IF position.line = range.end.line /\ position.character > range.end.character
    THEN FALSE
    ELSE TRUE

\* Test if otherRange is in range.  If the ranges are equal, will return true.
containsRange(range, otherRange) ==
    IF otherRange.start.line < range.start.line \/ otherRange.end.line < range.start.line
    THEN FALSE
    ELSE IF otherRange.start.line > range.end.line \/ otherRange.end.line > range.end.line
    THEN FALSE
    ELSE IF /\ otherRange.start.line = range.start.line
            /\ otherRange.start.character < range.start.character
    THEN FALSE
    ELSE IF /\ otherRange.end.line = range.end.line
            /\ otherRange.end.character > range.end.character
    THEN FALSE
    ELSE TRUE

nextCandidate_LastWins(candidate, item, position) ==
    IF item.label # "range" THEN candidate
    ELSE IF containsPosition(item, position) THEN Some(item)
    ELSE candidate

\* One iteration of the for loop of findRangeFromPosition: the candidate
\* after item.
nextCandidate(candidate, item, position) ==
    IF item.label # "range" THEN candidate
    ELSE IF containsPosition(item, position)
    THEN IF candidate = None THEN Some(item)
         ELSE IF containsRange(candidate[1], item) THEN Some(item)
         ELSE candidate
    ELSE candidate

RECURSIVE candidateFrom(_, _, _, _)
candidateFrom(contains, position, i, candidate) ==
    IF i > Len(contains) THEN candidate
    ELSE candidateFrom(contains, position, i + 1,
                       nextCandidate(candidate, contains[i], position))

findRangeFromPosition(s, file, position) ==
    IF ~Has(s.indices.documents, file) THEN None
    ELSE LET id == s.indices.documents[file].documents[1].id
         IN  IF ~Has(s.out.contains, id) THEN None
             ELSE IF Len(s.out.contains[id]) = 0 THEN None
             ELSE candidateFrom(s.out.contains[id], position, 1, None)

(***************************************************************************)
(* Results, items and locations.                                           *)
(***************************************************************************)
\* item(value): the item targets of a declaration, definition or reference
\* result.
item(s, value) ==
    IF value.label \in {"declarationResult", "definitionResult", "referenceResult"}
    THEN Get(s.out.item, value.id)
    ELSE None

\* value.id, undefined for a wrapped item target (which has no id).
IdOf(value) == IF "id" \in DOMAIN value THEN value.id ELSE NoId

\* asRange(value) of the Database base class.
asRange(value) == [start |-> value.start, end |-> value.end]

\* asLocation(value): None when it throws (the range is in no document, so
\* that document.uri is read from undefined).
asLocation(s, value) ==
    IF Has(s.in.contains, IdOf(value))
    THEN Some([uri |-> s.in.contains[IdOf(value)].uri, range |-> asRange(value)])
    ELSE None

\* The locations of the ranges from index i on, None when asLocation throws.
RECURSIVE asLocations(_, _, _)
asLocations(s, ranges, i) ==
    IF i > Len(ranges) THEN Some(<<>>)
    ELSE LET rest == asLocations(s, ranges, i + 1)
         IN  IF asLocation(s, ranges[i]) = None \/ rest = None THEN None
             ELSE Some(<<asLocation(s, ranges[i])[1]>> \o rest[1])

\* The query method returns (or throws).
Returned(qq, outcome, value) ==
    [qq EXCEPT !.pc = "returned", !.outcome = outcome, !.value = value]

\* hover, from the return of getResultForId on.
hoverReturn(qq, hoverResult) ==
    IF hoverResult = None THEN Returned(qq, "undefined", None)
    ELSE IF hoverResult[1].result = None THEN Returned(qq, "threw", None)
    ELSE LET r == hoverResult[1].result[1]
         IN  Returned(qq, "value",
                      Some([contents |-> r.contents,
                            range |-> IF r.range # None THEN r.range[1]
                                      ELSE asRange(qq.range[1])]))

\* declarations and definitions, from the return of getResultForId on.
locationsReturn(s, qq, found) ==
    IF found = None THEN Returned(qq, "undefined", None)
    ELSE IF item(s, found[1]) = None THEN Returned(qq, "undefined", None)
    ELSE LET locations == asLocations(s, item(s, found[1])[1], 1)
         IN  IF locations = None THEN Returned(qq, "threw", None)
             ELSE Returned(qq, "value", locations)

\* The call resolveReferenceResult(result, dedupRanges, monikers,
\* referenceResult, context): its frame on the stack, none when item() is
\* undefined and the call returns at once.
callResolve(s, qq, caller, referenceResult) ==
    [qq EXCEPT !.pc = "resolveReferenceResult", !.caller = caller,
               !.expanded = Append(@, referenceResult.id),
               !.stack = IF item(s, referenceResult) = None THEN <<>>
                         ELSE <<[targets |-> item(s, referenceResult)[1], i |-> 1]>>]

\* The call getResultForId(id, edges), edges being the map of the caller.
callGetResultForId(qq, caller, id) ==
    [qq EXCEPT !.pc = "getResultForId", !.caller = caller,
               !.id = id, !.currentId = id, !.hops = 0]

\* The map getResultForId is called with.
edgesOf(s, caller) ==
    CASE caller = "hover" -> s.out.hover
      [] caller = "declarations" -> s.out.declaration
      [] caller = "definitions" -> s.out.definition
      [] caller \in {"references", "matching"} -> s.out.references

\* What the caller does with [result, anchorId], the return of
\* getResultForId.
getResultForIdReturn(s, qq, found, anchorId) ==
    CASE qq.caller = "hover" -> hoverReturn(qq, found)
      [] qq.caller \in {"declarations", "definitions"} -> locationsReturn(s, qq, found)
      [] qq.caller = "references" ->
            IF found = None THEN Returned(qq, "value", Some(qq.result))
            ELSE callResolve(s, [qq EXCEPT !.anchorId = anchorId, !.monikers = <<>>],
                             "references", found[1])
      [] qq.caller = "matching" ->
            IF found = None THEN [qq EXCEPT !.pc = "monikers", !.j = @ + 1]
            ELSE callResolve(s, qq, "matching", found[1])

(***************************************************************************)
(* The query methods: each call finds the range at the position and goes   *)
(* on to getResultForId.                                                   *)
(***************************************************************************)
call(op, uri, position, includeDeclaration) ==
    /\ initialized
    /\ q.pc = "idle"
    /\ LET range == findRangeFromPosition(db, uri, position)
           q0    == [Idle EXCEPT !.op = op, !.uri = uri, !.position = position,
                                 !.includeDeclaration = includeDeclaration,
                                 !.range = range]
       IN  q' = IF range = None THEN Returned(q0, "undefined", None)
                ELSE callGetResultForId(q0, op, range[1].id)
    /\ UNCHANGED loadVars

hover(uri, position) == call("hover", uri, position, FALSE)

declarations(uri, position) == call("declarations", uri, position, FALSE)

definitions(uri, position) == call("definitions", uri, position, FALSE)

references(uri, position, context) ==
    call("references", uri, position, context.includeDeclaration)

\* One iteration of the do-while loop of getResultForId.
getResultForId ==
    /\ q.pc = "getResultForId"
    /\ q.hops < MaxHops
    /\ LET edges == edgesOf(db, q.caller)
       IN  q' = IF Has(edges, q.currentId)
                THEN getResultForIdReturn(db, q, Some(edges[q.currentId]), q.currentId)
                ELSE IF ~Has(db.out.next, q.id)
                THEN getResultForIdReturn(db, q, None, q.id)
                ELSE [q EXCEPT !.currentId = db.out.next[q.id].id, !.hops = @ + 1]
    /\ UNCHANGED loadVars

addLocation_NoDedup(s, qq, value) ==
    IF asLocation(s, value) = None THEN Returned(qq, "threw", None)
    ELSE [qq EXCEPT !.result = Append(@, asLocation(s, value)[1]),
                    !.dedupRanges = @ \cup {IdOf(value)}]

\* addLocation(result, value, dedup) on a range vertex: the query with the
\* location added, or thrown when the range is in no document.
addLocation(s, qq, value) ==
    IF IdOf(value) \in qq.dedupRanges THEN qq
    ELSE IF asLocation(s, value) = None THEN Returned(qq, "threw", None)
    ELSE [qq EXCEPT !.result = Append(@, asLocation(s, value)[1]),
                    !.dedupRanges = @ \cup {IdOf(value)}]

resolveReferenceResult_IgnoreContext ==
    /\ q.pc = "resolveReferenceResult"
    /\ LET depth == Len(q.stack)
       IN  IF depth = 0
           THEN q' = IF q.caller = "references"
                     THEN [q EXCEPT !.pc = "findMonikers", !.id = q.anchorId,
                                    !.currentId = q.anchorId, !.hops = 0]
                     ELSE [q EXCEPT !.pc = "monikers", !.j = @ + 1]
           ELSE IF q.stack[depth].i > Len(q.stack[depth].targets)
           THEN q' = [q EXCEPT !.stack = SubSeq(@, 1, depth - 1)]
           ELSE LET target == q.stack[depth].targets[q.stack[depth].i]
                    q1     == [q EXCEPT !.stack[depth].i = @ + 1]
                IN  CASE target.type \in {"declarations", "definitions"} ->
                            q' = addLocation(db, q1, target.range)
                      [] target.type = "references" ->
                            q' = addLocation(db, q1, target.range)
                      [] target.type = "referenceResults" ->
                            /\ depth < MaxDepth
                            /\ q' = IF item(db, target.result) = None
                                    THEN [q1 EXCEPT !.expanded = Append(@, target.result.id)]
                                    ELSE [q1 EXCEPT !.expanded = Append(@, target.result.id),
                                                    !.stack =
                                             Append(@, [targets |-> item(db, target.result)[1],
                                                        i |-> 1])]
                      [] target.type = "referenceLinks" ->
                            q' = [q1 EXCEPT !.monikers = Append(@, target.result)]
                      [] OTHER -> q' = q1
    /\ UNCHANGED loadVars

\* One step of resolveReferenceResult: the next target of the innermost
\* call's for loop, or the return of that call.
resolveReferenceResult ==
    /\ q.pc = "resolveReferenceResult"
    /\ LET depth == Len(q.stack)
       IN  IF depth = 0
           THEN q' = IF q.caller = "references"
                     THEN [q EXCEPT !.pc = "findMonikers", !.id = q.anchorId,
                                    !.currentId = q.anchorId, !.hops = 0]
                     ELSE [q EXCEPT !.pc = "monikers", !.j = @ + 1]
           ELSE IF q.stack[depth].i > Len(q.stack[depth].targets)
           THEN q' = [q EXCEPT !.stack = SubSeq(@, 1, depth - 1)]
           ELSE LET target == q.stack[depth].targets[q.stack[depth].i]
                    q1     == [q EXCEPT !.stack[depth].i = @ + 1]
                IN  CASE target.type \in {"declarations", "definitions"} ->
                            q' = IF q.includeDeclaration
                                 THEN addLocation(db, q1, target.range)
                                 ELSE q1
                      [] target.type = "references" ->
                            q' = addLocation(db, q1, target.range)
                      [] target.type = "referenceResults" ->
                            /\ depth < MaxDepth
                            /\ q' = IF item(db, target.result) = None
                                    THEN [q1 EXCEPT !.expanded = Append(@, target.result.id)]
                                    ELSE [q1 EXCEPT !.expanded = Append(@, target.result.id),
                                                    !.stack =
                                             Append(@, [targets |-> item(db, target.result)[1],
                                                        i |-> 1])]
                      [] target.type = "referenceLinks" ->
                            q' = [q1 EXCEPT !.monikers = Append(@, target.result)]
                      [] OTHER -> q' = q1
    /\ UNCHANGED loadVars

\* A variant of findMonikers that pushes the moniker it finds onto the list
\* of the moniker index as well.
findMonikers_IntoIndex ==
    /\ q.pc = "findMonikers"
    /\ q.hops < MaxHops
    /\ q' = IF Has(db.out.moniker, q.currentId)
            THEN [q EXCEPT !.pc = "monikers", !.i = 1, !.j = 0,
                           !.monikers = Append(@, db.out.moniker[q.currentId])]
            ELSE IF ~Has(db.in.previous, q.id)
            THEN [q EXCEPT !.pc = "monikers", !.i = 1, !.j = 0]
            ELSE [q EXCEPT !.currentId = db.in.previous[q.id].id, !.hops = @ + 1]
    /\ db' = IF Has(db.out.moniker, q.currentId)
             THEN [db EXCEPT !.indices.monikers =
                      PutAppend(@, db.out.moniker[q.currentId].key,
                                db.out.moniker[q.currentId])]
             ELSE db
    /\ UNCHANGED <<input, promise, reason, initialized, line, thrown, nread, consumed>>

\* One iteration of the do-while loop of findMonikers(monikers, anchorId).
findMonikers ==
    /\ q.pc = "findMonikers"
    /\ q.hops < MaxHops
    /\ q' = IF Has(db.out.moniker, q.currentId)
            THEN [q EXCEPT !.pc = "monikers", !.i = 1, !.j = 0,
                           !.monikers = Append(@, db.out.moniker[q.currentId])]
            ELSE IF ~Has(db.in.previous, q.id)
            THEN [q EXCEPT !.pc = "monikers", !.i = 1, !.j = 0]
            ELSE [q EXCEPT !.currentId = db.in.previous[q.id].id, !.hops = @ + 1]
    /\ UNCHANGED loadVars

\* One step of the for loops of findReferences: with j = 0 the loop over
\* monikers is at monikers[i]; with j > 0 the loop over matchingMonikers is
\* at matchingMonikers[j].
findReferences ==
    /\ q.pc = "monikers"
    /\ q' =
        IF q.i > Len(q.monikers) THEN Returned(q, "value", Some(q.result))
        ELSE LET moniker == q.monikers[q.i]
                 matchingMonikers == Get(db.indices.monikers,
                                         IF moniker.key = None THEN None ELSE moniker.key[1])
             IN  IF q.j = 0
                 THEN IF moniker.key \in q.dedupMonikers THEN [q EXCEPT !.i = @ + 1]
                      ELSE IF matchingMonikers = None
                      THEN [q EXCEPT !.dedupMonikers = @ \cup {moniker.key},
                                     !.processed = Append(@, moniker), !.i = @ + 1]
                      ELSE [q EXCEPT !.dedupMonikers = @ \cup {moniker.key},
                                     !.processed = Append(@, moniker), !.j = 1]
                 ELSE IF q.j > Len(matchingMonikers[1]) THEN [q EXCEPT !.i = @ + 1, !.j = 0]
                 ELSE LET matchingMoniker == matchingMonikers[1][q.j]
                      IN  IF moniker.id = matchingMoniker.id THEN [q EXCEPT !.j = @ + 1]
                          ELSE IF ~Has(db.in.moniker, matchingMoniker.id)
                          THEN [q EXCEPT !.j = @ + 1]
                          ELSE callGetResultForId(q, "matching",
                                                  db.in.moniker[matchingMoniker.id].id)
    /\ UNCHANGED loadVars

\* The caller has the result of the query; another query can be made.
return ==
    /\ q.pc = "returned"
    /\ q' = Idle
    /\ UNCHANGED loadVars

(***************************************************************************)
(* The specification SpecGraph: a document with one range, two result sets *)
(* and the results and moniker they can carry have been read; the stream   *)
(* goes on with edges among them, and the loaded store is queried.         *)
(***************************************************************************)
\* The store after the 'line' handler has handled lines[i], lines[i+1], ...,
\* up to the first line that fails.
RECURSIVE handleLines(_, _, _)
handleLines(s, lines, i) ==
    IF i > Len(lines) THEN s
    ELSE LET r == lineHandler(s, lines[i])
         IN  IF r.err # None THEN r.db
             ELSE handleLines(r.db, lines, i + 1)

\* The state of load after the lines of prefix, none of which fails.
InitAfter(prefix) ==
    /\ db = handleLines(constructor, prefix, 1)
    /\ input = "open"
    /\ promise = "pending"
    /\ reason = None
    /\ initialized = FALSE
    /\ line = Some(prefix[Len(prefix)])
    /\ thrown = None
    /\ nread = Len(prefix)
    /\ consumed = SeqToSet(prefix)
    /\ q = Idle

FileA == "file:///a.ts"

RangeVertex(id, sl, sc, el, ec) ==
    [Vertex(id, "range") EXCEPT !.start = Position(sl, sc), !.end = Position(el, ec)]

DocumentVertex(id, uri, contents) ==
    [Vertex(id, "document") EXCEPT !.uri = uri, !.contents = contents]

GraphPrefix ==
    << JsonLine(MetaData(Some(V_0_5_0_next_2))),
       JsonLine(Group(2, Some("file:///root"))),
       JsonLine(DocumentVertex(3, FileA, Some("a"))),
       JsonLine(RangeVertex(4, 0, 1, 0, 3)),
       JsonLine(Vertex(5, "resultSet")),
       JsonLine(Vertex(6, "resultSet")),
       JsonLine([Vertex(7, "hoverResult") EXCEPT
                    !.result = Some([contents |-> "doc", range |-> None])]),
       JsonLine(Vertex(8, "definitionResult")),
       JsonLine(Vertex(9, "declarationResult")),
       JsonLine(Vertex(10, "referenceResult")),
       JsonLine([Vertex(11, "moniker") EXCEPT
                    !.scheme = "tsc", !.identifier = "x", !.kind = "export"]),
       JsonLine(Edge1N(20, "contains", 3, <<4>>, "undefined")) >>

GraphLines ==
    {JsonLine(Edge11(21, "next", a[1], a[2], "undefined")) :
        a \in {<<4, 5>>, <<5, 6>>, <<6, 5>>, <<4, 6>>}}
    \cup {JsonLine(Edge11(22, "textDocument/hover", a, 7, "undefined")) : a \in {4, 5, 6}}
    \cup {JsonLine(Edge11(23, "textDocument/definition", a, 8, "undefined")) : a \in {5, 6}}
    \cup {JsonLine(Edge11(24, "textDocument/declaration", a, 9, "undefined")) : a \in {5}}
    \cup {JsonLine(Edge11(25, "textDocument/references", a, 10, "undefined")) : a \in {5, 6}}
    \cup {JsonLine(Edge11(26, "moniker", a, 11, "undefined")) : a \in {4}}
    \cup {JsonLine(Edge1N(27, "item", 8, <<4>>, "undefined")),
          JsonLine(Edge1N(28, "item", 10, <<4>>, "references"))}

GraphPositions == {Position(0, 2), Position(1, 0)}

InitGraph == InitAfter(GraphPrefix)

NextGraph ==
    \/ ReadLine(GraphLines, Len(GraphPrefix) + MaxLines)
    \/ Close
    \/ Then
    \/ \E p \in GraphPositions : hover(FileA, p)
    \/ \E p \in GraphPositions : declarations(FileA, p)
    \/ \E p \in GraphPositions : definitions(FileA, p)
    \/ \E p \in GraphPositions, b \in BOOLEAN :
           references(FileA, p, [includeDeclaration |-> b])
    \/ getResultForId
    \/ resolveReferenceResult
    \/ findMonikers
    \/ findReferences
    \/ return

SpecGraph == InitGraph /\ [][NextGraph]_vars

(***************************************************************************)
(* Claims about load.                                                      *)
(***************************************************************************)
IsVertexLine(l, label) ==
    l.json /\ l.element.type = "vertex" /\ l.element.label = label

\* The 'line' handler has just been called with l.
Handled(l) == nread' = nread + 1 /\ line' = Some(l)

\* This step is the 'close' handler.
Closing == input # "closed" /\ input' = "closed"

CloseMessages ==
    {"No project root provided.", "No version found.",
     "No valid semantic version string. The version is:",
     "Requires version 0.5.0 or higher but received:"}

\* The stream has ended and the promise was settled by the 'close' handler.
SettledAtClose ==
    /\ input = "closed"
    /\ promise # "pending"
    /\ promise = "rejected" => reason[1].message \in CloseMessages

\* C4: at the end of a stream that gave a project root and whose records all
\* were processed, the version gate accepts 0.4.100, 0.5.0 and 0.5.0-next.2
\* and rejects 0.4.5, 0.4.99 and 0.5.0-next.3.
C4_VersionGate ==
    (SettledAtClose /\ db.projectRoot # None /\ db.version # None) =>
        /\ db.version[1] \in {V_0_4_100, V_0_5_0, V_0_5_0_next_2} => promise = "resolved"
        /\ db.version[1] \in {V_0_4_5, V_0_4_99, V_0_5_0_next_3} => promise = "rejected"

\* (a) a metaData vertex was ingested.
MetaDataIngested == \E l \in consumed : IsVertexLine(l, "metaData")

\* (b) a group vertex carrying a root URI was ingested.
RootIngested == \E l \in consumed : IsVertexLine(l, "group") /\ l.element.rootUri # None

\* (c) the recorded version parses as a semantic version in the supported range.
VersionSupported ==
    /\ db.version # None
    /\ SemVerParse(db.version[1]) # None
    /\ SemVerSatisfies(SemVerParse(db.version[1])[1], SupportedRange, IncludePrerelease)

\* The rejection reason names a requirement that is not met.
ReasonNamesUnmet ==
    /\ reason' # None
    /\ LET e == reason'[1]
       IN  CASE e.message = "No project root provided." -> ~RootIngested
             [] e.message = "No version found." -> ~MetaDataIngested \/ db.version = None
             [] e.message = "No valid semantic version string. The version is:" ->
                    /\ db.version # None /\ e.about = db.version[1]
                    /\ SemVerParse(db.version[1]) = None
             [] e.message = "Requires version 0.5.0 or higher but received:" ->
                    /\ db.version # None /\ e.about = db.version[1]
                    /\ ~VersionSupported
             [] OTHER -> FALSE

\* C5: when the stream ends with no failure so far (the promise still
\* pending), load succeeds iff a metaData vertex and a group vertex with a
\* root URI were ingested and the recorded version is a supported semantic
\* version; otherwise it is rejected with a reason naming a requirement that
\* is not met, and a rejected load never initializes the store.
C5_LoadOutcome ==
    /\ [][(Closing /\ promise = "pending") =>
             /\ promise' = "resolved" <=> (MetaDataIngested /\ RootIngested /\ VersionSupported)
             /\ promise' # "resolved" => (promise' = "rejected" /\ ReasonNamesUnmet)]_vars
    /\ [](promise = "rejected" => ~initialized)

\* C5 witness: a stream with a metaData vertex, a rooted group and a supported
\* version has ended and the store is initialized.
C5_Witness ==
    /\ input = "closed" /\ promise = "resolved" /\ initialized
    /\ MetaDataIngested /\ RootIngested /\ VersionSupported

\* C7: once a record has raised an error the promise is rejected, stays
\* rejected whatever is read later and whatever the 'close' handler finds, and
\* the store is never initialized.
C7_FailureIsFinal ==
    /\ [][thrown' # None => promise' = "rejected"]_vars
    /\ [][promise = "rejected" => (promise' = "rejected" /\ ~initialized')]_vars
    /\ [](promise = "rejected" => ~initialized)

\* C7 witness: a record failed, more lines were read after it, and the stream
\* ended with a store that passes the end-of-stream validation on its own.
C7_Witness ==
    /\ input = "closed"
    /\ promise = "rejected"
    /\ reason[1].message \in {"SyntaxError", "No vertex found for Id"}
    /\ closeHandler(db).state = "resolved"

\* C8: a record that is JSON but whose type is missing or is neither vertex
\* nor edge makes load fail: no load that read one succeeds.
C8_UntypedRecordFails ==
    (\E l \in consumed : l.json /\ l.element.type \notin {"vertex", "edge"}) =>
        promise # "resolved"

(***************************************************************************)
(* The specification SpecEdge: a few vertices have been read and the       *)
(* stream goes on with single-target edges of every label, whose endpoints *)
(* are known vertices (4, 5) or ids of no vertex (90, 91).                 *)
(***************************************************************************)
EdgePrefix ==
    << JsonLine(MetaData(Some(V_0_4_100))),
       JsonLine(Group(2, Some("file:///root"))),
       JsonLine(RangeVertex(4, 0, 1, 0, 3)),
       JsonLine(Vertex(5, "resultSet")) >>

EdgeLabels ==
    {"contains", "item", "next", "moniker",
     "textDocument/documentSymbol", "textDocument/foldingRange",
     "textDocument/documentLink", "textDocument/diagnostic",
     "textDocument/declaration", "textDocument/definition",
     "textDocument/typeDefinition", "textDocument/hover",
     "textDocument/references", "textDocument/implementation"}

EdgeLines ==
    {JsonLine(Edge11(30, label, outV, inV, "undefined")) :
        label \in EdgeLabels, outV \in {4, 90}, inV \in {5, 91}}

InitEdge == InitAfter(EdgePrefix)

NextEdge ==
    \/ ReadLine(EdgeLines, Len(EdgePrefix) + MaxEdgeLines)
    \/ Close
    \/ Then

SpecEdge == InitEdge /\ [][NextEdge]_vars

(***************************************************************************)
(* The specification SpecRange: two documents of one URI, ranges that      *)
(* nest, overlap and coincide, and a stream of contains edges in any       *)
(* order; the loaded store is asked for hovers at every position.          *)
(***************************************************************************)
FileB == "file:///b.ts"

RangePrefix ==
    << JsonLine(MetaData(Some(V_0_5_0_next_2))),
       JsonLine(Group(2, Some("file:///root"))),
       JsonLine(DocumentVertex(3, FileA, Some("a"))),
       JsonLine(DocumentVertex(12, FileA, Some("a"))),
       JsonLine(Vertex(5, "resultSet")),
       JsonLine(RangeVertex(4, 0, 0, 2, 2)),
       JsonLine(RangeVertex(13, 1, 0, 1, 2)),
       JsonLine(RangeVertex(14, 0, 2, 1, 1)),
       JsonLine(RangeVertex(15, 1, 1, 1, 1)),
       JsonLine(RangeVertex(16, 1, 2, 1, 0)),
       JsonLine(RangeVertex(17, 1, 1, 1, 2)),
       JsonLine(RangeVertex(18, 1, 0, 1, 2)) >>

RangeLines ==
    {JsonLine(Edge1N(31, "contains", 3, <<r>>, "undefined")) : r \in {4, 13, 14, 15, 16, 18, 5}}
    \cup {JsonLine(Edge1N(32, "contains", 3, <<13, 4>>, "undefined")),
          JsonLine(Edge1N(33, "contains", 12, <<17>>, "undefined"))}

RangePositions == {Position(l, c) : l \in 0..2, c \in 0..2}

InitRange == InitAfter(RangePrefix)

NextRange ==
    \/ ReadLine(RangeLines, Len(RangePrefix) + MaxLines)
    \/ Close
    \/ Then
    \/ \E uri \in {FileA, FileB}, p \in RangePositions : hover(uri, p)
    \/ getResultForId
    \/ return

SpecRange == InitRange /\ [][NextRange]_vars

(***************************************************************************)
(* Claims about result resolution (specification SpecGraph).               *)
(***************************************************************************)
NumVertices == Cardinality(DOMAIN db.vertices.all)

\* The vertex n next edges away from id, NoId when the chain ends before.
RECURSIVE NextAt(_, _)
NextAt(id, n) ==
    IF n = 0 THEN id
    ELSE LET p == NextAt(id, n - 1)
         IN  IF p = NoId \/ ~Has(db.out.next, p) THEN NoId ELSE db.out.next[p].id

\* The number of next edges from id to the first vertex of its chain that
\* has an entry in edges, -1 when the chain has none.
Distance(id, edges) ==
    LET hits == {n \in 0..NumVertices : NextAt(id, n) # NoId /\ Has(edges, NextAt(id, n))}
    IN  IF hits = {} THEN -1 ELSE CHOOSE n \in hits : \A m \in hits : n <= m

\* The chain of next edges from id ends (it does not run into a cycle).
ChainEnds(id) == NextAt(id, NumVertices) = NoId

\* The number of next edges of a chain that ends.
ChainLength(id) == CHOOSE n \in 0..NumVertices : NextAt(id, n) # NoId /\ NextAt(id, n + 1) = NoId

\* The query method is in its own call of getResultForId, on the range found.
Resolving == q.pc = "getResultForId" /\ q.caller = q.op

\* C1: the walk of getResultForId from a range R follows the next edges, R
\* first, and returns the result of the first vertex of the chain that has
\* one of the requested kind, with that vertex as anchor, however many hops
\* away it is.
C1_ResolveAttached ==
    (q.pc # "idle" /\ q.range # None /\ Distance(q.range[1].id, edgesOf(db, q.op)) >= 0) =>
        LET R      == q.range[1].id
            d      == Distance(R, edgesOf(db, q.op))
            owner  == NextAt(R, d)
        IN  /\ Resolving => (q.hops <= d /\ q.currentId = NextAt(R, q.hops))
            /\ (q.op = "hover" /\ q.pc = "returned" /\ q.outcome = "value") =>
                   q.value[1].contents = db.out.hover[owner].result[1].contents
            /\ (q.op = "references" /\ ~Resolving) => q.anchorId = owner
            /\ q.pc = "returned" => q.outcome # "undefined" \/ item(db, edgesOf(db, q.op)[owner]) = None

\* C2: declarations and definitions on a range whose chain of next edges ends
\* and has no declaration (definition) result return not-found and raise no
\* error: the walk stops at the end of the chain.
C2_NoResultIsNotFound ==
    (/\ q.op \in {"declarations", "definitions"}
     /\ q.range # None
     /\ ChainEnds(q.range[1].id)
     /\ Distance(q.range[1].id, edgesOf(db, q.op)) = -1) =>
        /\ Resolving => q.hops <= ChainLength(q.range[1].id)
        /\ q.pc = "returned" => q.outcome = "undefined"

\* C3: the walks of getResultForId and findMonikers take a number of steps
\* bounded by the number of vertices of the store.
C3_WalksBounded ==
    q.pc \in {"getResultForId", "findMonikers"} => q.hops <= NumVertices

IsNextEdgeLine(l) ==
    l.json /\ l.element.type = "edge" /\ l.element.label = "next" /\ is11(l.element)

\* C9: a second next edge from a source makes load fail, so a loaded store
\* has ingested at most one next edge from each vertex.
C9_SecondNextFails ==
    promise = "resolved" =>
        \A l1, l2 \in consumed :
            (IsNextEdgeLine(l1) /\ IsNextEdgeLine(l2) /\ l1.element.outV = l2.element.outV)
                => l1.element.inV = l2.element.inV

\* C9 as amended: a next edge between known vertices is ingested without
\* error, whether or not its source already has an outgoing next edge, and
\* the forward pointer of the source becomes its target (last write wins).
C9_LastNextWins ==
    [][(nread' = nread + 1 /\ IsNextEdgeLine(line'[1])
        /\ Has(db.vertices.all, line'[1].element.outV)
        /\ Has(db.vertices.all, line'[1].element.inV)) =>
           /\ thrown' = None
           /\ promise' = promise
           /\ db'.out.next[line'[1].element.outV].id = line'[1].element.inV
           /\ db'.in.previous[line'[1].element.inV].id = line'[1].element.outV]_vars

\* C9 witness: a store is loaded that ingested two next edges from the range
\* 4, to 5 and to 6.
C9_Witness ==
    /\ promise = "resolved"
    /\ \E l1, l2 \in consumed :
          /\ IsNextEdgeLine(l1) /\ IsNextEdgeLine(l2)
          /\ l1.element.outV = 4 /\ l2.element.outV = 4
          /\ l1.element.inV = 5 /\ l2.element.inV = 6
    /\ db.out.next[4].id \in {5, 6}

(***************************************************************************)
(* Claims about edges with unknown endpoints (specification SpecEdge).     *)
(***************************************************************************)
\* The line handled in this step is a single-target edge one of whose
\* endpoints is no vertex of the store.
DanglingEdgeHandled ==
    /\ nread' = nread + 1
    /\ line'[1].json /\ line'[1].element.type = "edge" /\ is11(line'[1].element)
    /\ \/ ~Has(db.vertices.all, line'[1].element.outV)
       \/ ~Has(db.vertices.all, line'[1].element.inV)

\* C6: a single-target edge with an endpoint that is no ingested vertex
\* raises an error naming a missing id, outV when both are missing, and
\* leaves every edge index as it was.
C6_DanglingEdge ==
    [][DanglingEdgeHandled =>
          /\ thrown' # None
          /\ thrown'[1].message = "No vertex found for Id"
          /\ thrown'[1].about =
                 <<IF ~Has(db.vertices.all, line'[1].element.outV)
                   THEN line'[1].element.outV ELSE line'[1].element.inV>>
          /\ db'.out = db.out
          /\ db'.in = db.in]_vars

\* C6 witness: an edge both of whose endpoints are missing has just been
\* refused, in a store whose edge indices are not empty.
C6_Witness ==
    /\ thrown # None
    /\ line # None
    /\ line[1].element.outV = 90 /\ line[1].element.inV = 91
    /\ thrown[1].about = <<90>>
    /\ db.out.next # EmptyMap

(***************************************************************************)
(* Claims about position lookup (specification SpecRange).                 *)
(***************************************************************************)
\* a <= b in the order of positions: by line, then by character.
Before(a, b) == a.line < b.line \/ (a.line = b.line /\ a.character <= b.character)

Within(position, range) == Before(range.start, position) /\ Before(position, range.end)

StrictlyEncloses(a, b) ==
    /\ Before(a.start, b.start)
    /\ Before(b.end, a.end)
    /\ (a.start # b.start \/ a.end # b.end)

\* The ranges the canonical document of uri contains directly.
ContainedRanges(uri) ==
    LET id == db.indices.documents[uri].documents[1].id
    IN  IF Has(db.out.contains, id)
        THEN {r \in SeqToSet(db.out.contains[id]) : r.label = "range"}
        ELSE {}

\* C10: for an indexed URI, the range found at a position is a range the
\* canonical document contains directly, that contains the position and that
\* strictly encloses no other such range; none is found exactly when no
\* contained range contains the position.
C10_RangeAtPosition ==
    (q.pc # "idle" /\ Has(db.indices.documents, q.uri)) =>
        LET candidates == {r \in ContainedRanges(q.uri) : Within(q.position, r)}
        IN  /\ q.range = None <=> candidates = {}
            /\ q.range # None =>
                   /\ q.range[1] \in candidates
                   /\ \A r \in candidates : ~StrictlyEncloses(q.range[1], r)

\* C10 witness: the nested range 15 is found at (1, 1) although the enclosing
\* range 4 was ingested after it.
C10_Witness ==
    /\ q.pc # "idle"
    /\ q.uri = FileA
    /\ q.position = Position(1, 1)
    /\ q.range # None
    /\ q.range[1].id = 15
    /\ LET kids == db.out.contains[3]
       IN  \E i, j \in 1..Len(kids) : i < j /\ kids[i].id = 15 /\ kids[j].id = 4

(***************************************************************************)
(* The specification SpecRefs: symbol A (range 4 of document X, result set *)
(* 5, reference result 10) and symbol B (ranges 13 and 14 of document Y,   *)
(* result set 6, reference result 15, moniker 16) have been read; the      *)
(* stream goes on with the moniker of A, further item edges and next       *)
(* edges, and the loaded store is asked for references.                    *)
(***************************************************************************)
MonikerVertex(id, scheme, identifier, kind) ==
    [Vertex(id, "moniker") EXCEPT !.scheme = scheme, !.identifier = identifier, !.kind = kind]

RefsPrefix ==
    << JsonLine(MetaData(Some(V_0_5_0_next_2))),
       JsonLine(Group(2, Some("file:///root"))),
       JsonLine(DocumentVertex(3, FileA, Some("a"))),
       JsonLine(DocumentVertex(12, FileB, Some("b"))),
       JsonLine(RangeVertex(4, 0, 1, 0, 3)),
       JsonLine(RangeVertex(13, 0, 0, 0, 1)),
       JsonLine(RangeVertex(14, 1, 0, 1, 1)),
       JsonLine(Vertex(5, "resultSet")),
       JsonLine(Vertex(6, "resultSet")),
       JsonLine(Vertex(10, "referenceResult")),
       JsonLine(Vertex(15, "referenceResult")),
       JsonLine(MonikerVertex(11, "tsc", "x", "export")),
       JsonLine(MonikerVertex(16, "tsc", "x", "import")),
       JsonLine(MonikerVertex(17, "tsc", "y", "export")),
       JsonLine(Edge1N(20, "contains", 3, <<4>>, "undefined")),
       JsonLine(Edge1N(21, "contains", 12, <<13, 14>>, "undefined")),
       JsonLine(Edge11(22, "next", 4, 5, "undefined")),
       JsonLine(Edge11(23, "textDocument/references", 5, 10, "undefined")),
       JsonLine(Edge11(24, "textDocument/references", 6, 15, "undefined")),
       JsonLine(Edge11(25, "moniker", 6, 16, "undefined")),
       JsonLine(Edge1N(26, "item", 10, <<4>>, "definitions")),
       JsonLine(Edge1N(27, "item", 15, <<13>>, "references")) >>

RefsLines ==
    {JsonLine(Edge11(30, "moniker", a, 11, "undefined")) : a \in {4, 5}}
    \cup {JsonLine(Edge11(31, "next", 6, 4, "undefined"))}
    \cup {JsonLine(Edge1N(32, "item", 10, <<4>>, "references")),
          JsonLine(Edge1N(33, "item", 10, <<15>>, "referenceResults")),
          JsonLine(Edge1N(34, "item", 10, <<16>>, "referenceLinks")),
          JsonLine(Edge1N(35, "item", 15, <<14>>, "definitions")),
          JsonLine(Edge1N(36, "item", 15, <<10>>, "referenceResults")),
          JsonLine(Edge1N(37, "item", 15, <<17>>, "referenceLinks"))}

RefsPositions == {Position(0, 2)}

InitRefs == InitAfter(RefsPrefix)

NextRefs ==
    \/ ReadLine(RefsLines, Len(RefsPrefix) + MaxRefLines)
    \/ Close
    \/ Then
    \/ \E p \in RefsPositions, b \in BOOLEAN :
           references(FileA, p, [includeDeclaration |-> b])
    \/ getResultForId
    \/ resolveReferenceResult
    \/ findMonikers
    \/ findReferences
    \/ return

SpecRefs == InitRefs /\ [][NextRefs]_vars

(***************************************************************************)
(* Claims about references (specification SpecRefs).  The operators below  *)
(* say what a store's graph holds, whatever a query makes of it.           *)
(***************************************************************************)
\* The vertex n previous pointers away from id, NoId when the chain ends
\* before.
RECURSIVE PrevAt(_, _)
PrevAt(id, n) ==
    IF n = 0 THEN id
    ELSE LET p == PrevAt(id, n - 1)
         IN  IF p = NoId \/ ~Has(db.in.previous, p) THEN NoId ELSE db.in.previous[p].id

\* The number of previous pointers from id to the first vertex of its chain
\* that has a moniker edge, -1 when the chain has none.
MonikerDistance(id) ==
    LET hits == {n \in 0..NumVertices :
                    PrevAt(id, n) # NoId /\ Has(db.out.moniker, PrevAt(id, n))}
    IN  IF hits = {} THEN -1 ELSE CHOOSE n \in hits : \A m \in hits : n <= m

\* The item targets of the result id.
ItemTargets(id) == IF Has(db.out.item, id) THEN SeqToSet(db.out.item[id]) ELSE {}

\* ids and the reference results their item edges with property
\* referenceResults nest; Reach(ids) is the closure.
Nested(ids) ==
    ids \cup {t.result.id : t \in {u \in UNION {ItemTargets(r) : r \in ids} :
                                      u.type = "referenceResults"}}

RECURSIVE Reach(_)
Reach(ids) == IF Nested(ids) = ids THEN ids ELSE Reach(Nested(ids))

\* The ranges the reference results ids contribute under includeDeclaration.
Contributed(ids, includeDeclaration) ==
    {t.range.id : t \in {u \in UNION {ItemTargets(r) : r \in ids} :
                            \/ u.type = "references"
                            \/ u.type \in {"declarations", "definitions"} /\ includeDeclaration}}

\* The monikers the reference results ids contribute (referenceLinks).
Linked(ids) ==
    {t.result : t \in {u \in UNION {ItemTargets(r) : r \in ids} : u.type = "referenceLinks"}}

\* The location of the range id is in the list the query returned.
Located(id) ==
    /\ q.value # None
    /\ asLocation(db, db.vertices.all[id]) # None
    /\ asLocation(db, db.vertices.all[id])[1] \in SeqToSet(q.value[1])

\* A references query has returned, on a range whose chain owns a reference
\* result.
ReferencesReturned ==
    /\ q.op = "references" /\ q.pc = "returned" /\ q.range # None
    /\ Distance(q.range[1].id, db.out.references) >= 0

\* The vertex the range of the query resolves to, and its reference result.
AnchorOf == NextAt(q.range[1].id, Distance(q.range[1].id, db.out.references))

\* The vertices B of C11 for the moniker mA: B has an attached non-local
\* moniker other than mA with the scheme and identifier of mA, and the chain
\* of B owns a reference result.
SameSymbol(mA) ==
    {B \in DOMAIN db.out.moniker :
        /\ B # AnchorOf
        /\ db.out.moniker[B].id # mA.id
        /\ db.out.moniker[B].kind # "local"
        /\ db.out.moniker[B].scheme = mA.scheme
        /\ db.out.moniker[B].identifier = mA.identifier
        /\ Distance(B, db.out.references) >= 0}

\* The reference result the chain of the vertex v owns.
OwnedReferences(v) == db.out.references[NextAt(v, Distance(v, db.out.references))]

\* C11: when the chain of the vertex A the range resolves to owns a
\* reference result RA and a non-local moniker mA, and another vertex B has
\* a non-local moniker of the same scheme and identifier and owns the
\* reference result RB, the references returned hold a location for every
\* range the expansion of RA contributes and for every range the expansion
\* of RB contributes.
C11_MonikerLinked ==
    (ReferencesReturned /\ MonikerDistance(AnchorOf) >= 0) =>
        LET mA == db.out.moniker[PrevAt(AnchorOf, MonikerDistance(AnchorOf))]
            RA == OwnedReferences(AnchorOf)
        IN  (mA.kind # "local" /\ SameSymbol(mA) # {}) =>
                /\ q.outcome = "value"
                /\ \A r \in Contributed(Reach({RA.id}), q.includeDeclaration) : Located(r)
                /\ \A B \in SameSymbol(mA) :
                       \A r \in Contributed(Reach({OwnedReferences(B).id}), q.includeDeclaration) :
                           Located(r)

\* The number of places of the sequence s that hold x.
Count(s, x) == Cardinality({i \in 1..Len(s) : s[i] = x})

\* C12: the locations a references query has collected, and the list it
\* returns, hold exactly one location for each range id added: a location
\* occurs as many times as there are added range ids of that location, so
\* no range id has two.
C12_OneLocationPerRange ==
    q.op = "references" =>
        /\ Len(q.result) = Cardinality(q.dedupRanges)
        /\ \A i \in 1..Len(q.result) :
               Count(q.result, q.result[i]) =
                   Cardinality({r \in q.dedupRanges :
                                   asLocation(db, db.vertices.all[r]) = Some(q.result[i])})
        /\ (q.pc = "returned" /\ q.outcome = "value") => q.value = Some(q.result)

\* C12 witness: range 4 is the target of two item edges of the reference
\* result 10, which has been expanded twice (the second time through the
\* monikers), and the list returned holds one location.
C12_Witness ==
    /\ q.op = "references" /\ q.pc = "returned" /\ q.outcome = "value"
    /\ q.includeDeclaration
    /\ Cardinality({i \in 1..Len(db.out.item[10]) :
                       db.out.item[10][i].type \in {"definitions", "references"}
                       /\ db.out.item[10][i].range.id = 4}) = 2
    /\ Count(q.expanded, 10) = 2
    /\ Len(q.value[1]) = 1

\* C13: when a references query returns, the ranges of its result are those
\* the reference results it expanded contribute: a range that is the target
\* of an item edge with property references of an expanded result is in the
\* result whatever includeDeclaration is, and a range that is the target
\* only of item edges with property declarations or definitions is in the
\* result if and only if includeDeclaration is true; the results expanded
\* include every result nested in the one the range resolves to.
C13_IncludeDeclaration ==
    (ReferencesReturned /\ q.outcome = "value") =>
        LET expanded == SeqToSet(q.expanded)
        IN  /\ Reach({OwnedReferences(AnchorOf).id}) \subseteq expanded
            /\ \A r \in Contributed(expanded, TRUE) :
                   Located(r) <=> (r \in Contributed(expanded, FALSE) \/ q.includeDeclaration)
            /\ q.dedupRanges = Contributed(expanded, q.includeDeclaration)

\* C13 witness: a query without includeDeclaration has returned the range 13,
\* a references target of the nested reference result 15, and neither 14, a
\* definitions target of 15, nor 4, a definitions target of 10.
C13_Witness ==
    /\ ReferencesReturned /\ q.outcome = "value" /\ ~q.includeDeclaration
    /\ \E t \in ItemTargets(10) : t.type = "referenceResults" /\ t.result.id = 15
    /\ \E t \in ItemTargets(15) : t.type = "definitions" /\ t.range.id = 14
    /\ Located(13) /\ ~Located(14) /\ ~Located(4)

(***************************************************************************)
(* The queries that read the indices without a walk: each is one step.    *)
(***************************************************************************)
\* getDocumentInfos(): one entry for each key of indices.documents.  The
\* entries are given as a set: the order of the array, which is that of the
\* keys of the Map, is not modelled.
getDocumentInfos(s) ==
    {[uri |-> key,
      id |-> s.indices.documents[key].documents[1].id,
      hash |-> s.indices.documents[key].hash] : key \in DOMAIN s.indices.documents}

findFile(s, uri) ==
    IF ~Has(s.indices.documents, uri) THEN None
    ELSE Some([id |-> s.indices.documents[uri].documents[1].id,
               hash |-> s.indices.documents[uri].hash])

fileContent(s, info) == Get(s.indices.contents, info.hash)

\* A query that is one step: it returns value, undefined when value is None.
answer(op, uri, info, value) ==
    /\ initialized
    /\ q.pc = "idle"
    /\ q' = Returned([Idle EXCEPT !.op = op, !.uri = uri, !.info = info],
                     IF value = None THEN "undefined" ELSE "value", value)
    /\ UNCHANGED loadVars

(***************************************************************************)
(* The specification SpecDocs: after the metaData and group vertices the   *)
(* stream gives document vertices, of two URIs and with the text "a", the  *)
(* text "b" or no text; the n-th line of the stream has the id DocId(n).   *)
(* The loaded store is asked for its document infos, files and contents.   *)
(***************************************************************************)
DocsPrefix ==
    << JsonLine(MetaData(Some(V_0_5_0_next_2))),
       JsonLine(Group(2, Some("file:///root"))) >>

DocId(n) == 30 + n

DocUris == {FileA, FileB}

DocTexts == {None, Some("a"), Some("b")}

DocLines(n) == {JsonLine(DocumentVertex(DocId(n), uri, contents)) :
                   uri \in DocUris, contents \in DocTexts}

\* The infos fileContent is asked for: those findFile gives, and the id and
\* digest of each text a document can have.
DocInfos ==
    {findFile(db, uri)[1] : uri \in DOMAIN db.indices.documents}
    \cup {[id |-> DocId(Len(DocsPrefix)), hash |-> md5(text)] :
             text \in {"a", "b", "c", "No content provided."}}

InitDocs == InitAfter(DocsPrefix)

NextDocs ==
    \/ ReadLine(DocLines(nread), Len(DocsPrefix) + MaxDocLines)
    \/ Close
    \/ Then
    \/ answer("getDocumentInfos", "", None, Some(getDocumentInfos(db)))
    \/ \E uri \in DocUris \cup {"file:///c.ts"} : answer("findFile", uri, None, findFile(db, uri))
    \/ \E info \in DocInfos : answer("fileContent", "", Some(info), fileContent(db, info))
    \/ return

SpecDocs == InitDocs /\ [][NextDocs]_vars

(***************************************************************************)
(* Claims about documents (specification SpecDocs).  The ids of the        *)
(* stream grow, so that of the documents of a URI the one ingested first   *)
(* has the least id.                                                       *)
(***************************************************************************)
\* The document vertices ingested, and those of one URI.
Ingested == {l.element : l \in {k \in consumed : IsVertexLine(k, "document")}}

IngestedAt(uri) == {d \in Ingested : d.uri = uri}

\* The document ingested first with the URI.
FirstAt(uri) == CHOOSE d \in IngestedAt(uri) : \A e \in IngestedAt(uri) : d.id <= e.id

\* The text of a document: the sentinel text when it embeds none.
TextOf(d) == IF d.contents # None THEN d.contents[1] ELSE "No content provided."

\* The info of the canonical document of the URI.
Canonical(uri) == [id |-> FirstAt(uri).id, hash |-> md5(TextOf(FirstAt(uri)))]

\* C14: the URIs of the document index are the URIs ingested; the bucket of
\* each holds its documents in ingestion order; getDocumentInfos gives one
\* entry for each URI and findFile the same info, with the id of the
\* document ingested first and the digest of its text; and a further
\* document never changes the info of a URI.
C14_FirstDocumentCanonical ==
    /\ [](/\ DOMAIN db.indices.documents = {d.uri : d \in Ingested}
          /\ \A uri \in DOMAIN db.indices.documents :
                LET documents == db.indices.documents[uri].documents
                IN  /\ Len(documents) = Cardinality(IngestedAt(uri))
                    /\ Len(documents) > 0
                    /\ SeqToSet(documents) = IngestedAt(uri)
                    /\ \A i, j \in 1..Len(documents) : i < j => documents[i].id < documents[j].id
                    /\ findFile(db, uri) = Some(Canonical(uri))
                    /\ {e \in getDocumentInfos(db) : e.uri = uri} =
                           {[uri |-> uri, id |-> Canonical(uri).id, hash |-> Canonical(uri).hash]}
          /\ Cardinality(getDocumentInfos(db)) = Cardinality({d.uri : d \in Ingested})
          /\ (q.pc = "returned" /\ q.op = "getDocumentInfos") =>
                q.value = Some({[uri |-> uri, id |-> Canonical(uri).id,
                                 hash |-> Canonical(uri).hash] : uri \in {d.uri : d \in Ingested}})
          /\ (q.pc = "returned" /\ q.op = "findFile") =>
                q.value = IF IngestedAt(q.uri) = {} THEN None ELSE Some(Canonical(q.uri)))
    /\ [][\A uri \in DOMAIN db.indices.documents :
              findFile(db', uri) = findFile(db, uri)]_vars

\* C14 witness: findFile has returned the id and the digest of the first of
\* three documents of a URI, whose texts differ.
C14_Witness ==
    /\ q.pc = "returned" /\ q.op = "findFile" /\ q.outcome = "value"
    /\ Cardinality(IngestedAt(q.uri)) = 3
    /\ Cardinality({TextOf(d) : d \in IngestedAt(q.uri)}) = 3
    /\ q.value[1] = Canonical(q.uri)
    /\ Cardinality(getDocumentInfos(db)) = 2

\* The line handled in this step is a document vertex.
DocumentHandled == nread' = nread + 1 /\ IsVertexLine(line'[1], "document")

\* C15: the content index has one entry for each distinct text ingested,
\* whatever the URIs and ids of the documents; ingesting a document never
\* fails, also when its text differs from that of an earlier document of its
\* URI; fileContent gives the text of every ingested document under the
\* digest of that text; and the hash and content of a URI stay those of the
\* document ingested first.
C15_ContentIndex ==
    /\ [](/\ Cardinality(DOMAIN db.indices.contents) =
                 Cardinality({TextOf(d) : d \in Ingested})
          /\ \A d \in Ingested :
                fileContent(db, [id |-> d.id, hash |-> md5(TextOf(d))]) = Some(TextOf(d))
          /\ \A uri \in {d.uri : d \in Ingested} :
                /\ db.indices.documents[uri].hash = md5(TextOf(FirstAt(uri)))
                /\ fileContent(db, findFile(db, uri)[1]) = Some(TextOf(FirstAt(uri)))
          /\ (q.pc = "returned" /\ q.op = "fileContent") =>
                q.value = IF \E d \in Ingested : md5(TextOf(d)) = q.info[1].hash
                          THEN Some(TextOf(CHOOSE d \in Ingested :
                                               md5(TextOf(d)) = q.info[1].hash))
                          ELSE None)
    /\ [][DocumentHandled => (thrown' = None /\ promise' = promise)]_vars

\* C15 witness: two documents of different URIs have the same text, a later
\* document of the first URI has another text, the content index has two
\* entries, and fileContent has returned the later text under its own hash
\* while the hash of the URI is that of the first text.
C15_Witness ==
    /\ q.pc = "returned" /\ q.op = "fileContent" /\ q.outcome = "value"
    /\ Cardinality(DOMAIN db.indices.contents) = 2
    /\ \E d1 \in IngestedAt(FileA), d2 \in IngestedAt(FileB), d3 \in IngestedAt(FileA) :
          /\ TextOf(d1) = TextOf(d2)
          /\ d1.id < d3.id
          /\ TextOf(d3) # TextOf(d1)
          /\ q.info[1].hash = md5(TextOf(d3))
          /\ q.value = Some(TextOf(d3))
          /\ findFile(db, FileA)[1].hash = md5(TextOf(d1))

(***************************************************************************)
(* documentSymbols and foldingRanges.  An entry of a document symbol       *)
(* result is a DocumentSymbol in full (it has a name) or is range based:   *)
(* the id of a range and the entries below it (children, empty when the    *)
(* entry gives none: the code treats both alike).  A conversion that can   *)
(* throw gives [threw, value].                                             *)
(***************************************************************************)
RangeBasedDocumentSymbol(id, children) == [name |-> None, id |-> id, children |-> children]

\* lsp.DocumentSymbol.is(value)
DocumentSymbolIs(value) == value.name # None

RECURSIVE toDocumentSymbol(_, _)
RECURSIVE toDocumentSymbols(_, _, _)
RECURSIVE toDocumentSymbols_StopAtDropped(_, _, _)

toDocumentSymbols_StopAtDropped(s, items, i) ==
    IF i > Len(items) THEN [threw |-> FALSE, value |-> <<>>]
    ELSE LET converted == toDocumentSymbol(s, items[i])
         IN  IF converted.threw THEN [threw |-> TRUE, value |-> <<>>]
             ELSE IF converted.value = None THEN [threw |-> FALSE, value |-> <<>>]
             ELSE LET rest == toDocumentSymbols_StopAtDropped(s, items, i + 1)
                  IN  IF rest.threw THEN rest
                      ELSE [threw |-> FALSE, value |-> <<converted.value[1]>> \o rest.value]

\* The for loops of documentSymbols and of toDocumentSymbol: the conversions
\* of items[i], items[i+1], ... that are not undefined, in their order.
toDocumentSymbols(s, items, i) ==
    IF i > Len(items) THEN [threw |-> FALSE, value |-> <<>>]
    ELSE LET converted == toDocumentSymbol(s, items[i])
         IN  IF converted.threw THEN [threw |-> TRUE, value |-> <<>>]
             ELSE LET rest == toDocumentSymbols(s, items, i + 1)
                  IN  IF rest.threw THEN rest
                      ELSE IF converted.value = None THEN rest
                      ELSE [threw |-> FALSE, value |-> <<converted.value[1]>> \o rest.value]

\* toDocumentSymbol(value): it throws when value.id is the id of no range
\* (range.tag is read from undefined).
toDocumentSymbol(s, value) ==
    IF ~Has(s.vertices.ranges, value.id) THEN [threw |-> TRUE, value |-> None]
    ELSE LET range == s.vertices.ranges[value.id]
             tag   == range.tag
         IN  IF tag = None THEN [threw |-> FALSE, value |-> None]
             ELSE IF ~(tag[1].type = "declaration" \/ tag[1].type = "definition")
             THEN [threw |-> FALSE, value |-> None]
             ELSE LET result == [name |-> tag[1].text,
                                 detail |-> IF tag[1].detail # None THEN tag[1].detail[1] ELSE "",
                                 kind |-> tag[1].kind,
                                 range |-> tag[1].fullRange,
                                 selectionRange |-> asRange(range),
                                 children |-> None]
                  IN  IF Len(value.children) > 0
                      THEN LET children == toDocumentSymbols(s, value.children, 1)
                           IN  IF children.threw THEN [threw |-> TRUE, value |-> None]
                               ELSE [threw |-> FALSE,
                                     value |-> Some([result EXCEPT !.children = Some(children.value)])]
                      ELSE [threw |-> FALSE, value |-> Some(result)]

\* documentSymbols(uri): [outcome, value] of the call.
documentSymbols(s, uri) ==
    IF ~Has(s.indices.documents, uri) THEN [outcome |-> "undefined", value |-> None]
    ELSE LET id == s.indices.documents[uri].documents[1].id
         IN  IF ~Has(s.out.documentSymbol, id) THEN [outcome |-> "undefined", value |-> None]
             ELSE LET documentSymbolResult == s.out.documentSymbol[id]
                  IN  IF documentSymbolResult.result = None
                      THEN [outcome |-> "threw", value |-> None]
                      ELSE IF Len(documentSymbolResult.result[1]) = 0
                      THEN [outcome |-> "undefined", value |-> None]
                      ELSE IF DocumentSymbolIs(documentSymbolResult.result[1][1])
                      THEN [outcome |-> "value", value |-> Some(documentSymbolResult.result[1])]
                      ELSE LET result == toDocumentSymbols(s, documentSymbolResult.result[1], 1)
                           IN  IF result.threw THEN [outcome |-> "threw", value |-> None]
                               ELSE [outcome |-> "value", value |-> Some(result.value)]

\* foldingRanges(uri): [outcome, value] of the call.
foldingRanges(s, uri) ==
    IF ~Has(s.indices.documents, uri) THEN [outcome |-> "undefined", value |-> None]
    ELSE LET id == s.indices.documents[uri].documents[1].id
         IN  IF ~Has(s.out.foldingRange, id) THEN [outcome |-> "undefined", value |-> None]
             ELSE IF s.out.foldingRange[id].result = None
             THEN [outcome |-> "threw", value |-> None]
             ELSE [outcome |-> "value", value |-> Some(s.out.foldingRange[id].result[1])]

\* A query that is one step and can throw: it ends with the outcome and the
\* value of r.
answered(op, uri, r) ==
    /\ initialized
    /\ q.pc = "idle"
    /\ q' = Returned([Idle EXCEPT !.op = op, !.uri = uri], r.outcome, r.value)
    /\ UNCHANGED loadVars

(***************************************************************************)
(* The specification SpecSymbols: a document and its ranges have been      *)
(* read, 4 with a declaration tag, 13 with a definition tag, 14 without a  *)
(* tag and 15 with a tag of another type (99 is the id of no vertex); the  *)
(* stream gives a document symbol result and the edge from the document to *)
(* it, and the loaded store is asked for the document's symbols.           *)
(***************************************************************************)
RangeTag(type, text) ==
    Some([type |-> type, text |-> text, detail |-> None, kind |-> "function",
          fullRange |-> [start |-> Position(0, 0), end |-> Position(9, 0)]])

TaggedRange(id, row, type) ==
    [RangeVertex(id, row, 0, row, 2) EXCEPT !.tag = RangeTag(type, <<"symbol", id>>)]

SymbolsPrefix ==
    << JsonLine(MetaData(Some(V_0_5_0_next_2))),
       JsonLine(Group(2, Some("file:///root"))),
       JsonLine(DocumentVertex(3, FileA, Some("a"))),
       JsonLine(TaggedRange(4, 0, "declaration")),
       JsonLine(TaggedRange(13, 1, "definition")),
       JsonLine(RangeVertex(14, 2, 0, 2, 2)),
       JsonLine(TaggedRange(15, 3, "reference")) >>

SymbolIds == {4, 13, 14, 15, 99}

\* The lists of entries below an entry.
SymbolChildren ==
    LET leaf(id) == RangeBasedDocumentSymbol(id, <<>>)
    IN  {<<>>, <<leaf(4)>>, <<leaf(14)>>, <<leaf(14), leaf(13)>>,
         <<leaf(13), leaf(15), leaf(4)>>, <<leaf(99)>>,
         <<RangeBasedDocumentSymbol(14, <<leaf(4)>>),
           RangeBasedDocumentSymbol(13, <<leaf(14), leaf(4), leaf(13)>>)>>}

SymbolEntries ==
    {RangeBasedDocumentSymbol(id, children) : id \in SymbolIds, children \in SymbolChildren}

\* The sequences of at most n entries.
RECURSIVE SymbolLists(_)
SymbolLists(n) ==
    IF n = 0 THEN {<<>>}
    ELSE SymbolLists(n - 1)
         \cup {Append(l, e) : l \in {k \in SymbolLists(n - 1) : Len(k) = n - 1},
                              e \in SymbolEntries}

\* A DocumentSymbol in full.
FullSymbol == [name |-> Some("f"), id |-> NoId, children |-> <<>>]

SymbolResults == SymbolLists(MaxSymbols) \cup {<<FullSymbol>>, <<FullSymbol, FullSymbol>>}

\* The stream: the document symbol result 40, then the edge to it.
SymbolLines(n) ==
    IF n = Len(SymbolsPrefix)
    THEN {JsonLine([Vertex(40, "documentSymbolResult") EXCEPT !.result = Some(result)]) :
             result \in SymbolResults}
    ELSE {JsonLine(Edge11(41, "textDocument/documentSymbol", 3, 40, "undefined"))}

InitSymbols == InitAfter(SymbolsPrefix)

NextSymbols ==
    \/ ReadLine(SymbolLines(nread), Len(SymbolsPrefix) + MaxSymbolLines)
    \/ Close
    \/ Then
    \/ \E uri \in {FileA, FileB} : answered("documentSymbols", uri, documentSymbols(db, uri))
    \/ return

SpecSymbols == InitSymbols /\ [][NextSymbols]_vars

(***************************************************************************)
(* Claims about document symbols (specification SpecSymbols).              *)
(***************************************************************************)
\* The range the entry refers to carries a declaration or definition tag.
HasSymbolTag(entry) ==
    /\ Has(db.vertices.ranges, entry.id)
    /\ db.vertices.ranges[entry.id].tag # None
    /\ db.vertices.ranges[entry.id].tag[1].type \in {"declaration", "definition"}

\* Every entry of the tree refers to an ingested range.
RECURSIVE RefersToRanges(_)
RefersToRanges(entries) ==
    \A i \in 1..Len(entries) :
        /\ Has(db.vertices.ranges, entries[i].id)
        /\ RefersToRanges(entries[i].children)

\* symbols is, level by level, the subsequence of the tagged entries: one
\* symbol for each tagged entry, in the order of the entries, named and
\* placed by the range of its entry, with the tagged entries below it.
RECURSIVE IsSymbolsOf(_, _)
IsSymbolsOf(symbols, entries) ==
    LET kept == SelectSeq(entries, HasSymbolTag)
    IN  /\ Len(symbols) = Len(kept)
        /\ \A i \in 1..Len(kept) :
               LET range == db.vertices.ranges[kept[i].id]
               IN  /\ symbols[i].name = range.tag[1].text
                   /\ symbols[i].selectionRange = [start |-> range.start, end |-> range.end]
                   /\ IsSymbolsOf(IF symbols[i].children = None THEN <<>>
                                  ELSE symbols[i].children[1],
                                  kept[i].children)

\* The entries of the document symbol result of the canonical document of
\* the URI asked for, when it is range based and not empty.
RangeBasedResult ==
    IF /\ Has(db.indices.documents, q.uri)
       /\ Has(db.out.documentSymbol, db.indices.documents[q.uri].documents[1].id)
    THEN LET result == db.out.documentSymbol[db.indices.documents[q.uri].documents[1].id].result
         IN  IF result # None /\ Len(result[1]) > 0 /\ result[1][1].name = None
             THEN result ELSE None
    ELSE None

\* C16: for a range-based result whose entries refer to ingested ranges,
\* documentSymbols returns at each level of the tree exactly the entries
\* whose range carries a declaration or definition tag, in their order,
\* each with the tagged entries below it: an entry without such a tag is
\* dropped and its tagged siblings are kept.
C16_TaggedSubsequence ==
    (/\ q.pc = "returned" /\ q.op = "documentSymbols"
     /\ RangeBasedResult # None
     /\ RefersToRanges(RangeBasedResult[1])) =>
        /\ q.outcome = "value"
        /\ IsSymbolsOf(q.value[1], RangeBasedResult[1])

\* C16 witness: of the entries 14 and 4 the first is dropped and the second
\* returned, and of the entries 13, 15 and 4 below it the symbols of 13 and
\* 4 are returned, in this order.
C16_Witness ==
    /\ q.pc = "returned" /\ q.op = "documentSymbols" /\ q.outcome = "value"
    /\ RangeBasedResult # None
    /\ Len(RangeBasedResult[1]) = 2
    /\ RangeBasedResult[1][1].id = 14
    /\ RangeBasedResult[1][2] =
           RangeBasedDocumentSymbol(4, <<RangeBasedDocumentSymbol(13, <<>>),
                                         RangeBasedDocumentSymbol(15, <<>>),
                                         RangeBasedDocumentSymbol(4, <<>>)>>)
    /\ Len(q.value[1]) = 1
    /\ q.value[1][1].name = <<"symbol", 4>>
    /\ Len(q.value[1][1].children[1]) = 2
    /\ q.value[1][1].children[1][1].name = <<"symbol", 13>>
    /\ q.value[1][1].children[1][2].name = <<"symbol", 4>>

(***************************************************************************)
(* The specification SpecQueries: the store of SpecRefs with a folding     *)
(* range result and a document symbol result for document X; the stream    *)
(* goes on as in SpecRefs and the loaded store is asked every query.       *)
(***************************************************************************)
QueriesPrefix ==
    RefsPrefix \o
    << JsonLine(TaggedRange(52, 3, "definition")),
       JsonLine([Vertex(50, "foldingRangeResult") EXCEPT
                    !.result = Some(<<[startLine |-> 0, endLine |-> 3]>>)]),
       JsonLine([Vertex(51, "documentSymbolResult") EXCEPT
                    !.result = Some(<<RangeBasedDocumentSymbol(4, <<>>),
                                      RangeBasedDocumentSymbol(52, <<>>)>>)]),
       JsonLine([Vertex(7, "hoverResult") EXCEPT
                    !.result = Some([contents |-> "doc", range |-> None])]),
       JsonLine(Vertex(8, "definitionResult")),
       JsonLine(Edge11(53, "textDocument/foldingRange", 3, 50, "undefined")),
       JsonLine(Edge11(54, "textDocument/documentSymbol", 3, 51, "undefined")),
       JsonLine(Edge11(55, "textDocument/hover", 5, 7, "undefined")),
       JsonLine(Edge11(56, "textDocument/definition", 5, 8, "undefined")),
       JsonLine(Edge1N(57, "item", 8, <<4>>, "undefined")) >>

QueryUris == {FileA, "file:///c.ts"}

InitQueries == InitAfter(QueriesPrefix)

NextQueries ==
    \/ ReadLine(RefsLines, Len(QueriesPrefix) + MaxQueryLines)
    \/ Close
    \/ Then
    \/ \E uri \in QueryUris : answered("foldingRanges", uri, foldingRanges(db, uri))
    \/ \E uri \in QueryUris : answered("documentSymbols", uri, documentSymbols(db, uri))
    \/ \E uri \in QueryUris, p \in RefsPositions : hover(uri, p)
    \/ \E uri \in QueryUris, p \in RefsPositions : declarations(uri, p)
    \/ \E uri \in QueryUris, p \in RefsPositions : definitions(uri, p)
    \/ \E uri \in QueryUris, p \in RefsPositions, b \in BOOLEAN :
           references(uri, p, [includeDeclaration |-> b])
    \/ \E uri \in QueryUris : answer("findFile", uri, None, findFile(db, uri))
    \/ \E uri \in DOMAIN db.indices.documents :
           answer("fileContent", "", findFile(db, uri), fileContent(db, findFile(db, uri)[1]))
    \/ answer("getDocumentInfos", "", None, Some(getDocumentInfos(db)))
    \/ getResultForId
    \/ resolveReferenceResult
    \/ findMonikers
    \/ findReferences
    \/ return

SpecQueries == InitQueries /\ [][NextQueries]_vars

C18_AttachedMoniker ==
    /\ [](q.pc = "findMonikers" =>
             /\ q.currentId = PrevAt(q.anchorId, q.hops)
             /\ MonikerDistance(q.anchorId) >= 0 => q.hops <= MonikerDistance(q.anchorId))
    /\ [][(q.pc = "findMonikers" /\ q'.pc # "findMonikers") =>
             LET d == MonikerDistance(q.anchorId)
             IN  q'.monikers = IF d >= 0
                               THEN Append(q.monikers, db.out.moniker[PrevAt(q.anchorId, d)])
                               ELSE q.monikers]_vars

\* The reference results the expansions of a references query can meet: the
\* closure under nesting of the results the store's references edges own.
Expandable == Reach({db.out.references[v].id : v \in DOMAIN db.out.references})

\* C19: in a references query each reference result is expanded at most
\* once, also when item edges with property referenceResults form a cycle:
\* no id occurs twice among the results expanded so far, and the nesting of
\* the expansions under way is never deeper than the number of reference
\* results there are to expand, so that the expansion ends.
C19_ExpandedOnce ==
    q.op = "references" =>
        /\ \A r \in SeqToSet(q.expanded) : Count(q.expanded, r) <= 1
        /\ Len(q.stack) <= Cardinality(Expandable)

\* The vertices attached to a moniker other than m that shares the key of
\* m, whose chain owns a reference result.
AttachedToMatching(m) ==
    IF m.key = None \/ ~Has(db.indices.monikers, m.key[1]) THEN {}
    ELSE {db.in.moniker[other.id].id :
             other \in {o \in SeqToSet(db.indices.monikers[m.key[1]]) :
                           o.id # m.id /\ Has(db.in.moniker, o.id)}}

\* C20: when a references query returns its list, the pending monikers have
\* been processed to a fixed point: every moniker a referenceLinks item of
\* an expanded reference result contributes is pending, every pending
\* moniker's key has been processed and no key more than once, and the list
\* holds a location for every range contributed by the reference result of
\* every vertex attached to another moniker that shares a key with a
\* pending moniker.
C20_PendingMonikersFixedPoint ==
    (ReferencesReturned /\ q.outcome = "value") =>
        LET pending == SeqToSet(q.monikers)
        IN  /\ Linked(SeqToSet(q.expanded)) \subseteq pending
            /\ \A m \in pending : m.key \in q.dedupMonikers
            /\ \A k \in q.dedupMonikers :
                   Cardinality({i \in 1..Len(q.processed) : q.processed[i].key = k}) = 1
            /\ \A m \in pending :
                   \A v \in AttachedToMatching(m) :
                       Distance(v, db.out.references) >= 0 =>
                           \A r \in Contributed(Reach({OwnedReferences(v).id}),
                                                q.includeDeclaration) : Located(r)

(***************************************************************************)
(* The specification SpecLocal: the store of SpecRefs is read; the stream  *)
(* goes on with the moniker 18 of symbol A, local or exported, with the    *)
(* scheme and identifier of the moniker 16 of symbol B, its moniker edge   *)
(* and referenceLinks items, and the loaded store is asked for references. *)
(***************************************************************************)
LocalLines ==
    {JsonLine(MonikerVertex(18, "tsc", "x", kind)) : kind \in {"local", "export"}}
    \cup {JsonLine(Edge11(40, "moniker", 5, 18, "undefined")),
          JsonLine(Edge1N(41, "item", 10, <<18>>, "referenceLinks")),
          JsonLine(Edge1N(42, "item", 10, <<16>>, "referenceLinks"))}

InitLocal == InitAfter(RefsPrefix)

NextLocal ==
    \/ ReadLine(LocalLines, Len(RefsPrefix) + MaxLocalLines)
    \/ Close
    \/ Then
    \/ \E p \in RefsPositions, b \in BOOLEAN :
           references(FileA, p, [includeDeclaration |-> b])
    \/ getResultForId
    \/ resolveReferenceResult
    \/ findMonikers
    \/ findReferences
    \/ return

SpecLocal == InitLocal /\ [][NextLocal]_vars

(***************************************************************************)
(* Claims about local monikers (specification SpecLocal).                  *)
(***************************************************************************)
\* The locations of the ranges ids.
LocationsOf(ids) == {asLocation(db, db.vertices.all[r])[1] : r \in ids}

\* C21: no list of the moniker index holds a moniker of kind local and no
\* local moniker has a key; and when a references query returns its list
\* and every pending moniker is local, the list holds exactly the locations
\* of the ranges the reference result of the clicked range contributes,
\* nothing but this result and those it nests having been expanded,
\* whatever monikers other vertices have.
C21_LocalMonikerNeverLinks ==
    /\ \A k \in DOMAIN db.indices.monikers :
           \A m \in SeqToSet(db.indices.monikers[k]) : m.kind # "local"
    /\ \A v \in DOMAIN db.vertices.all :
           (db.vertices.all[v].label = "moniker" /\ db.vertices.all[v].kind = "local") =>
               db.vertices.all[v].key = None
    /\ (/\ ReferencesReturned /\ q.outcome = "value"
        /\ \A m \in SeqToSet(q.monikers) : m.kind = "local") =>
           LET own == Reach({OwnedReferences(AnchorOf).id})
           IN  /\ SeqToSet(q.expanded) = own
               /\ q.dedupRanges = Contributed(own, q.includeDeclaration)
               /\ SeqToSet(q.value[1]) = LocationsOf(Contributed(own, q.includeDeclaration))
               /\ Len(q.value[1]) = Cardinality(Contributed(own, q.includeDeclaration))

\* C21 witness: the pending monikers of a returned query are the local
\* moniker 18 of the anchor 5, once from the referenceLinks item of the
\* reference result 10 and once from the walk of findMonikers; vertex 6 has
\* the indexed moniker 16 with the scheme and identifier of 18 and owns the
\* reference result 15, which contributes range 13; the list returned holds
\* the location of range 4 alone.
C21_Witness ==
    /\ ReferencesReturned /\ q.outcome = "value" /\ q.includeDeclaration
    /\ Len(q.monikers) = 2
    /\ \A m \in SeqToSet(q.monikers) : m.id = 18 /\ m.kind = "local"
    /\ Has(db.out.moniker, 6) /\ db.out.moniker[6].id = 16
    /\ db.out.moniker[6].scheme = q.monikers[1].scheme
    /\ db.out.moniker[6].identifier = q.monikers[1].identifier
    /\ db.out.moniker[6].key # None /\ Has(db.indices.monikers, db.out.moniker[6].key[1])
    /\ 13 \in Contributed({OwnedReferences(6).id}, TRUE)
    /\ Len(q.value[1]) = 1 /\ Located(4) /\ ~Located(13)

(***************************************************************************)
(* The specification SpecIndex: a document with two ranges, two result     *)
(* sets, a reference result and two monikers have been read; the stream    *)
(* goes on with a second document and with edges of the indexed labels     *)
(* among them, some with a missing endpoint, some from a source that has   *)
(* such an edge already.                                                   *)
(***************************************************************************)
IndexPrefix ==
    << JsonLine(MetaData(Some(V_0_5_0_next_2))),
       JsonLine(Group(2, Some("file:///root"))),
       JsonLine(DocumentVertex(3, FileA, Some("a"))),
       JsonLine(RangeVertex(4, 0, 1, 0, 3)),
       JsonLine(RangeVertex(13, 1, 0, 1, 1)),
       JsonLine(Vertex(5, "resultSet")),
       JsonLine(Vertex(6, "resultSet")),
       JsonLine(Vertex(10, "referenceResult")),
       JsonLine(MonikerVertex(11, "tsc", "x", "export")),
       JsonLine(MonikerVertex(16, "tsc", "x", "import")) >>

IndexLines ==
    {JsonLine(DocumentVertex(12, FileB, Some("b")))}
    \cup {JsonLine(Edge1N(20, "contains", a[1], a[2], "undefined")) :
             a \in {<<3, <<4, 13>>>>, <<12, <<4>>>>, <<3, <<13, 91>>>>}}
    \cup {JsonLine(Edge1N(21, "item", 10, <<4>>, property)) :
             property \in {"references", "undefined"}}
    \cup {JsonLine(Edge1N(22, "item", 10, <<16>>, "referenceLinks"))}
    \cup {JsonLine(Edge11(23, "next", a[1], a[2], "undefined")) :
             a \in {<<4, 5>>, <<4, 6>>, <<6, 5>>}}
    \cup {JsonLine(Edge11(24, "moniker", a[1], a[2], "undefined")) :
             a \in {<<4, 11>>, <<4, 16>>, <<5, 11>>}}
    \cup {JsonLine(Edge11(25, "textDocument/references", 5, 10, "undefined")),
          JsonLine(Edge11(26, "textDocument/hover", 4, 90, "undefined"))}

InitIndex == InitAfter(IndexPrefix)

NextIndex ==
    \/ ReadLine(IndexLines, Len(IndexPrefix) + MaxIndexLines)
    \/ Close
    \/ Then

SpecIndex == InitIndex /\ [][NextIndex]_vars

(***************************************************************************)
(* Claims about the edge indices (specification SpecIndex).                *)
(***************************************************************************)
\* No record of the stream has failed so far.
ProcessedWithoutError == input = "open" \/ (input = "closed" /\ promise = "resolved")

\* The maps of the edge index that hold one vertex for a key.
SingleValued ==
    {db.out[f] : f \in DOMAIN db.out \ {"contains", "item"}} \cup {db.in[f] : f \in DOMAIN db.in}

\* The id of the vertex an item target refers to.
ItemTargetId(t) ==
    CASE t.type \in {"references", "declarations", "definitions"} -> t.range.id
      [] t.type \in {"referenceResults", "referenceLinks"} -> t.result.id
      [] OTHER -> t.id

\* Every key and every target held in the maps of the edge index.
IndexedIds ==
    UNION {DOMAIN m : m \in SingleValued}
    \cup UNION {{m[k].id : k \in DOMAIN m} : m \in SingleValued}
    \cup DOMAIN db.out.contains \cup DOMAIN db.out.item
    \cup UNION {{v.id : v \in SeqToSet(db.out.contains[k])} : k \in DOMAIN db.out.contains}
    \cup UNION {{ItemTargetId(t) : t \in SeqToSet(db.out.item[k])} : k \in DOMAIN db.out.item}

\* C22: when no record has failed, every key and every target held in the
\* contains, item, next, previous, moniker and result-edge maps is the id
\* of a vertex in vertices.all, and for every entry in.contains[t] = c the
\* target t occurs in the list out.contains[c].
C22_IndexedIdsAreVertices ==
    ProcessedWithoutError =>
        /\ IndexedIds \subseteq DOMAIN db.vertices.all
        /\ \A t \in DOMAIN db.in.contains :
               LET c == db.in.contains[t].id
               IN  /\ Has(db.out.contains, c)
                   /\ \E v \in SeqToSet(db.out.contains[c]) : v.id = t

\* C22 witness: the document 12 and the edges contains 3 -> [4, 13] and
\* contains 12 -> [4] have been read without error: range 4 is in the child
\* lists of both documents and its parent is the last one, 12.
C22_Witness ==
    /\ ProcessedWithoutError
    /\ nread = Len(IndexPrefix) + 3
    /\ Has(db.in.contains, 4) /\ db.in.contains[4].id = 12
    /\ Has(db.in.contains, 13) /\ db.in.contains[13].id = 3
    /\ Len(db.out.contains[3]) = 2
    /\ Len(db.out.contains[12]) = 1

\* C23: when no record has failed, the reverse single-valued maps agree
\* with the forward ones: whenever in.previous[t] = s then out.next[s] = t,
\* and whenever in.moniker[m] = v then out.moniker[v] = m.
C23_ReverseAgreesWithForward ==
    ProcessedWithoutError =>
        /\ \A t \in DOMAIN db.in.previous :
               LET s == db.in.previous[t].id
               IN  Has(db.out.next, s) /\ db.out.next[s].id = t
        /\ \A m \in DOMAIN db.in.moniker :
               LET v == db.in.moniker[m].id
               IN  Has(db.out.moniker, v) /\ db.out.moniker[v].id = m

=============================================================================
